---- MODULE Spec2Model ----
(***************************************************************************)
(* claude-nvidia-proxy: the streaming path of the Anthropic -> OpenAI      *)
(* proxy (internal/server/server.go, proxyStream), as a state machine.     *)
(*                                                                         *)
(* One streaming request is followed from the outbound call to the return  *)
(* of proxyStream.  The upstream SSE body is read line by line; each read  *)
(* of the loop at server.go:255 is one step, and the step contains the     *)
(* whole loop body for that line (tool-call fragments, text delta, finish  *)
(* reason).  The events handed to the encoder closure (server.go:188) are  *)
(* recorded in emission order in `events`.                                 *)
(*                                                                         *)
(* Values that come from the clock (time.Now().UnixMilli() in the message  *)
(* id and in the synthesized tool-call id) are kept as the token "<ms>".   *)
(* The diagnostic counters of server.go:219-224 (chunkCount, textChars,    *)
(* toolDeltaChunks, toolArgsChars, preview) only feed the log line at      *)
(* server.go:419-423 and are not part of the state.                        *)
(***************************************************************************)
EXTENDS Integers, Sequences, FiniteSets, TLC

\* ------------------------------------------------------------------------
\* Bounds of the model.
\* ------------------------------------------------------------------------

\* Number of newline-terminated lines read from the upstream body.
MaxLines == 3

\* ------------------------------------------------------------------------
\* Strings.  The id and the name of a tool-call fragment go through
\* strings.TrimSpace, so they are sequences of characters; the other
\* strings (text, partial arguments, finish reasons) are never taken apart
\* and stay TLA+ strings.
\* ------------------------------------------------------------------------

IsSpace(c) == c \in {" ", "\t", "\n", "\r"}

RECURSIVE TrimLeft(_)
TrimLeft(s) ==
    IF s # <<>> /\ IsSpace(Head(s)) THEN TrimLeft(Tail(s)) ELSE s

RECURSIVE TrimRight(_)
TrimRight(s) ==
    IF s # <<>> /\ IsSpace(s[Len(s)]) THEN TrimRight(SubSeq(s, 1, Len(s) - 1)) ELSE s

TrimSpace(s) == TrimRight(TrimLeft(s))

\* fmt.Sprintf("call_%d_%d", time.Now().UnixMilli(), toolIndex)
FallbackToolID(toolIndex) == <<"call_", "<ms>", "_", ToString(toolIndex)>>

\* fmt.Sprintf("tool_%d", toolIndex)
FallbackToolName(toolIndex) == <<"tool_", ToString(toolIndex)>>

\* ------------------------------------------------------------------------
\* converter.MapFinishReason
\* ------------------------------------------------------------------------

\* MapFinishReason handing an unrecognized finish reason on as it is.
MapFinishReasonPassUnknown(finish) ==
    CASE finish = "stop"           -> "end_turn"
      [] finish = "length"         -> "max_tokens"
      [] finish = "tool_calls"     -> "tool_use"
      [] finish = "content_filter" -> "stop_sequence"
      [] finish = ""               -> "end_turn"
      [] OTHER                     -> finish

MapFinishReason(finish) ==
    CASE finish = "stop"           -> "end_turn"
      [] finish = "length"         -> "max_tokens"
      [] finish = "tool_calls"     -> "tool_use"
      [] finish = "content_filter" -> "stop_sequence"
      [] OTHER                     -> "end_turn"

\* ------------------------------------------------------------------------
\* The events the encoder is called with (event name and the payload
\* fields that vary).
\* ------------------------------------------------------------------------

MessageStart == [event |-> "message_start"]

ToolUseBlockStart(idx, id, name) ==
    [event |-> "content_block_start", index |-> idx, btype |-> "tool_use",
     id |-> id, name |-> name]

TextBlockStart(idx) ==
    [event |-> "content_block_start", index |-> idx, btype |-> "text"]

InputJsonDelta(idx, partial) ==
    [event |-> "content_block_delta", index |-> idx, dtype |-> "input_json_delta",
     text |-> partial]

TextDelta(idx, text) ==
    [event |-> "content_block_delta", index |-> idx, dtype |-> "text_delta",
     text |-> text]

ContentBlockStop(idx) == [event |-> "content_block_stop", index |-> idx]

MessageDelta(stopReason) == [event |-> "message_delta", stop_reason |-> stopReason]

MessageStop == [event |-> "message_stop"]

\* ------------------------------------------------------------------------
\* Upstream input: lines of the SSE body.
\*
\* A line (after TrimRight "\r\n") is described by how it starts and by its
\* payload.  A pointer field of types.OpenAIChatCompletionChunk (Content,
\* FinishReason) is a sequence of length 0 (nil) or 1.
\* ------------------------------------------------------------------------

ToolCall(index, id, name, args) ==
    [index |-> index, id |-> id, name |-> name, args |-> args]

Choice(toolCalls, content, finish) ==
    [toolCalls |-> toolCalls, content |-> content, finish |-> finish]

NoChoices == [choices |-> <<>>]

Chunk(toolCalls, content, finish) ==
    [choices |-> <<Choice(toolCalls, content, finish)>>]

DataLine(chunk) == [prefix |-> "data:", payload |-> "json", chunk |-> chunk]

\* Lines that carry no chunk.
BlankLine    == [prefix |-> "",       payload |-> "",       chunk |-> NoChoices]
CommentLine  == [prefix |-> ":",      payload |-> "other",  chunk |-> NoChoices]
EventLine    == [prefix |-> "event:", payload |-> "other",  chunk |-> NoChoices]
EmptyData    == [prefix |-> "data:",  payload |-> "",       chunk |-> NoChoices]
GarbageData  == [prefix |-> "data:",  payload |-> "other",  chunk |-> NoChoices]
BareDone     == [prefix |-> "",       payload |-> "[DONE]", chunk |-> NoChoices]
DoneLine     == [prefix |-> "data:",  payload |-> "[DONE]", chunk |-> NoChoices]
NoChoiceLine == DataLine(NoChoices)

\* Upstream tool-call indices (tc.Index); a negative one is legal JSON.
ToolIndexInputs == {-1, 0, 1}

\* (id, name, arguments) of the fragments: complete; all omitted; padded id
\* with a blank name and no arguments.
FragFull(i)    == ToolCall(i, <<"a">>, <<"f">>, "{")
FragBare(i)    == ToolCall(i, <<>>, <<>>, "}")
FragPadded(i)  == ToolCall(i, <<" ", "b">>, <<" ">>, "")

ToolChunks ==
    {Chunk(<<FragFull(i)>>, <<>>, <<>>) : i \in ToolIndexInputs}
    \cup {Chunk(<<FragBare(i)>>, <<>>, <<>>) : i \in {0, 1}}
    \cup {Chunk(<<FragPadded(i)>>, <<>>, <<>>) : i \in {0, 1}}
    \cup {Chunk(<<FragBare(0), FragFull(1)>>, <<>>, <<>>),
          Chunk(<<FragFull(1), FragPadded(0)>>, <<>>, <<>>),
          Chunk(<<FragFull(0)>>, <<"llo">>, <<>>),
          Chunk(<<FragFull(0)>>, <<>>, <<"tool_calls">>)}

TextChunks ==
    {Chunk(<<>>, <<"He">>, <<>>),
     Chunk(<<>>, <<"llo">>, <<>>),
     Chunk(<<>>, <<"">>, <<>>),
     Chunk(<<>>, <<"He">>, <<"stop">>)}

FinishChunks ==
    {Chunk(<<>>, <<>>, <<"stop">>),
     Chunk(<<>>, <<>>, <<"">>)}

ChunkInputs == ToolChunks \cup TextChunks \cup FinishChunks

LineInputs ==
    {BlankLine, CommentLine, EventLine, EmptyData, GarbageData, BareDone,
     DoneLine, NoChoiceLine}
    \cup {DataLine(c) : c \in ChunkInputs}

\* Outcome of client.Do: "error" or the status code of the response.  The
\* transport hands no 1xx response to the caller except 101.
UpstreamOutcomes == {"error", "101", "200", "300", "500"}

StatusCode(o) ==
    CASE o = "101" -> 101 [] o = "200" -> 200
      [] o = "300" -> 300 [] o = "500" -> 500 [] OTHER -> 0

\* server.go:70 and server.go:167
IsNon2xx(code) == code < 200 \/ code >= 300

\* ------------------------------------------------------------------------
\* Inbound input: the request handed to HandleMessages and the configured
\* server secret.
\*
\* A header value is a sequence of tokens: the scheme word, blanks and the
\* characters of the credential; net/http hands it over without blanks at
\* its ends.  The body is described by how
\* json.Decoder.Decode takes it (the decoder reads one JSON value and does
\* not look at what follows it) and by the decoded fields the handler
\* reads.  The content of a message is a json.RawMessage, described by the
\* kind of JSON value it holds.
\* ------------------------------------------------------------------------

Message(role, content) == [role |-> role, content |-> content, blocks |-> <<>>]

\* A message whose content is a sequence of content blocks.
BlocksMessage(role, blocks) ==
    [role |-> role, content |-> "blocks", blocks |-> blocks]

\* types.AnthropicContentBlock.  The Source pointer is a sequence of length
\* 0 or 1; a json.RawMessage (Content) is [kind, raw] with kind "absent",
\* "string" (raw is the string's content) or "other" (raw is the JSON text).
Block(type, text, id, name, input, toolUseID, content, source) ==
    [type |-> type, text |-> text, id |-> id, name |-> name, input |-> input,
     toolUseID |-> toolUseID, content |-> content, source |-> source]

RawJSON(kind, raw) == [kind |-> kind, raw |-> raw]

ImageSource(type, mediaType, data, url) ==
    [type |-> type, mediaType |-> mediaType, data |-> data, url |-> url]

TextIn(text) == Block("text", text, <<>>, <<>>, RawJSON("absent", ""), <<>>, RawJSON("absent", ""), <<>>)

ToolResultIn(toolUseID, content) ==
    Block("tool_result", "", <<>>, <<>>, RawJSON("absent", ""), toolUseID, content, <<>>)

ToolUseIn(id, name, input) ==
    Block("tool_use", "", id, name, input, <<>>, RawJSON("absent", ""), <<>>)

ImageIn(source) ==
    Block("image", "", <<>>, <<>>, RawJSON("absent", ""), <<>>, RawJSON("absent", ""), source)

Body(syntax, model, messages, stream) ==
    [syntax |-> syntax, model |-> model, messages |-> messages, stream |-> stream,
     maxTokens |-> <<>>]

\* The max_tokens field of a body: <<>> when the field is absent.
WithMaxTokens(body, maxTokens) == [body EXCEPT !.maxTokens = maxTokens]

InboundRequest(secret, authorization, apiKey, body) ==
    [secret |-> secret, authorization |-> authorization, apiKey |-> apiKey,
     body |-> body]

\* The request once the handler has read it: what is still looked at is
\* req.Stream (server.go:55).
Admitted(stream) ==
    [secret |-> <<>>, authorization |-> <<>>, apiKey |-> <<>>,
     body |-> Body("read", <<>>, <<>>, stream)]

\* cfg.ServerAPIKey (trimmed by LoadConfig, config.go:37).
SecretInputs == {<<>>, <<"s">>}

AuthorizationInputs ==
    {<<>>,
     <<"Bearer", " ", "s">>,
     <<"bearer", " ", " ", "s">>,
     <<"Bearer", " ", "x">>,
     <<"Basic", " ", "s">>}

ApiKeyInputs == {<<>>, <<"s">>, <<"x">>}

MessageListInputs ==
    {<<>>,
     <<Message(<<"user">>, "string")>>,
     <<Message(<<"user">>, "blocks")>>,
     <<Message(<<"user">>, "null")>>,
     <<Message(<<"user">>, "number")>>,
     <<Message(<<" ">>, "number")>>,
     <<Message(<<"user">>, "string"), Message(<<"assistant">>, "absent")>>}

\* "garbage": no JSON value; "mistyped": a JSON value of the wrong shape
\* (a model that is a number); "json": a request object; "json+trailing":
\* a request object followed by bytes that are no JSON.
BodyInputs ==
    {Body("garbage", <<>>, <<>>, FALSE), Body("mistyped", <<>>, <<>>, FALSE)}
    \cup {Body(syn, model, msgs, stream) :
            syn \in {"json", "json+trailing"},
            model \in {<<>>, <<" ">>, <<"m">>},
            msgs \in MessageListInputs,
            stream \in BOOLEAN}

InboundRequests ==
    {InboundRequest(secret, auth, key, body) :
        secret \in SecretInputs, auth \in AuthorizationInputs,
        key \in ApiKeyInputs, body \in BodyInputs}

\* ------------------------------------------------------------------------
\* Upstream input: the body of a 2xx answer to a non-streaming request,
\* decoded into types.OpenAIChatCompletionResponse.
\*
\* A pointer field (Content, Usage, PromptTokensDetails) is a sequence of
\* length 0 (nil) or 1.  Function.Arguments is an `any`: kind says what
\* the JSON value was ("string", "object", or "other" for a number, an
\* array, a boolean, null or a missing field) and raw is its text: the
\* content of a string, the JSON text otherwise.
\* ------------------------------------------------------------------------

Arguments(kind, raw) == [kind |-> kind, raw |-> raw]

RespToolCall(id, name, arguments) ==
    [id |-> id, name |-> name, arguments |-> arguments]

RespChoice(content, toolCalls, finish) ==
    [content |-> content, toolCalls |-> toolCalls, finish |-> finish]

Usage(prompt, completion, cached) ==
    [prompt |-> prompt, completion |-> completion, cached |-> cached]

Response(choices, usage) == [choices |-> choices, usage |-> usage]

\* No upstream body has been decoded.
NoResponse == Response(<<>>, <<>>)

ArgumentsInputs ==
    {Arguments("string", "{\"a\":1}"),
     Arguments("string", "{\"a\":"),
     Arguments("string", "[1]"),
     Arguments("string", "null"),
     Arguments("string", ""),
     Arguments("object", "{\"a\":1}"),
     Arguments("other", "5"),
     Arguments("other", "null")}

RespToolCallsInputs ==
    {<<>>}
    \cup {<<RespToolCall("a", "f", args)>> : args \in ArgumentsInputs}
    \cup {<<RespToolCall("a", "f", Arguments("string", "{\"a\":1}")),
            RespToolCall("b", "g", Arguments("string", "[1]"))>>}

FinishInputs == {"stop", "length", "tool_calls", "content_filter", "", "eos"}

UsageInputs ==
    {<<>>,
     <<Usage(5, 2, <<>>)>>,
     <<Usage(5, 2, <<0>>)>>,
     <<Usage(5, 2, <<3>>)>>}

ResponseInputs ==
    {Response(<<>>, <<Usage(5, 2, <<>>)>>)}
    \cup {Response(<<RespChoice(content, calls, finish)>>, usage) :
            content \in {<<>>, <<"">>, <<"hello">>},
            calls \in RespToolCallsInputs,
            finish \in FinishInputs,
            usage \in UsageInputs}
    \cup {Response(<<RespChoice(<<"hello">>, <<>>, "stop"),
                     RespChoice(<<"bye">>, <<>>, "length")>>, <<>>)}

\* The reply to a non-streaming request (types.AnthropicMessageResponse):
\* the content blocks, the stop reason and the usage.
Reply(content, stopReason, usage) ==
    [content |-> content, stop_reason |-> stopReason, usage |-> usage]

ReplyUsage(input, output, cacheRead) ==
    [input_tokens |-> input, output_tokens |-> output,
     cache_read_input_tokens |-> cacheRead]

TextBlock(text) == [type |-> "text", text |-> text]

ToolUseBlock(id, name, input) ==
    [type |-> "tool_use", id |-> id, name |-> name, input |-> input]

\* The input of a tool_use block: an object with the given JSON text, the
\* nil map (null on the wire), or the object {"text": value}.
ObjectInput(text)   == [kind |-> "object",   value |-> text]
NullInput           == [kind |-> "null",     value |-> "null"]
FallbackInput(text) == [kind |-> "fallback", value |-> text]

\* No reply has been written.
NoReply == Reply(<<>>, "", ReplyUsage(0, 0, 0))

\* No line has been read yet.
NoLine == [prefix |-> "", payload |-> "none", chunk |-> NoChoices]

\* ------------------------------------------------------------------------
\* State.
\* ------------------------------------------------------------------------

VARIABLES
    pc,                        \* "inbound" | "start" | "call" | "loop" | "returned"
    ret,                       \* how the handler ended: "" while running
    inbound,                   \* the request, until the handler has read it
    upstreamCalls,             \* calls of client.Do
    upOpened,                  \* client.Do returned a response
    upStatus,                  \* its status code, 0 if there is none
    upBodyRead,                \* io.ReadAll of its body: "" | "all" | "part"
    respStatus,                \* status written to the client, 0 if none
    respBody,                  \* what was written as the body
    upBodyClosed,              \* upResp.Body.Close() has run
    outMaxTokens,              \* max_tokens of the outbound request, 0 if none
    upJSON,                    \* the decoded body of a non-streaming 2xx answer
    reply,                     \* the reply converted from it
    convReq,                   \* messages handed to ConvertAnthropicToOpenAI
    convOut,                   \* what it returned for them
    other,                     \* a second streaming request's worker
    ctxCancelled,              \* r.Context() is cancelled
    buffered,                  \* lines still to be read when it was cancelled
    nread,                     \* lines read from the upstream body
    lastLine,                  \* the line ReadString returned last
    consumed,                  \* the chunks processed so far, in order
    events,                    \* encoder calls, in order
    encoderErr,                \* some encoder call returned an error
    toolStates,                \* toolIndex -> [contentBlockIndex, id, name]
    nextContentBlockIndex,
    currentContentBlockIndex,
    currentBlockType,
    hasTextBlock,
    finishReason,
    sawDone

vars == <<pc, ret, inbound, upstreamCalls, upOpened, upStatus, upBodyRead,
          respStatus, respBody, upBodyClosed, outMaxTokens, upJSON, reply,
          convReq, convOut, other, ctxCancelled, buffered, nread, lastLine,
          consumed, events, encoderErr, toolStates, nextContentBlockIndex,
          currentContentBlockIndex, currentBlockType, hasTextBlock,
          finishReason, sawDone>>

framerVars == <<toolStates, nextContentBlockIndex, currentContentBlockIndex,
                currentBlockType, hasTextBlock, finishReason, sawDone>>

\* What belongs to the converter taken alone and to the second worker.
apartVars == <<convReq, convOut, other>>

\* What the steps before the read loop leave alone.
streamVars == <<nread, lastLine, consumed, buffered>>

\* What the read loop leaves alone.
callVars == <<inbound, upstreamCalls, upOpened, upStatus, upBodyRead,
              outMaxTokens, upJSON, reply, apartVars>>

\* The converter has not returned.
NotConverted == [done |-> FALSE, err |-> FALSE, messages |-> <<>>]

\* The empty map of server.go:231.
EmptyToolStates == [t \in {} |-> [contentBlockIndex |-> 0, id |-> <<>>, name |-> <<>>]]

\* The framer's locals as proxyStream declares them, as one record.
FreshFramer ==
    [toolStates |-> EmptyToolStates,
     nextContentBlockIndex |-> 0,
     currentContentBlockIndex |-> -1,
     currentBlockType |-> "",
     hasTextBlock |-> FALSE,
     finishReason |-> "",
     out |-> <<>>]

\* A second request's goroutine: where it stands, the chunks it has
\* taken, the events it has written and its own framer locals.
Worker(at, taken, written, s) ==
    [pc |-> at, consumed |-> taken, events |-> written, s |-> s]

\* No second request has been accepted.
NoWorker == Worker("idle", <<>>, <<>>, FreshFramer)

\* The handler is entered with one of the given requests.
InitWith(requests) ==
    /\ pc = "inbound"
    /\ ret = ""
    /\ inbound \in requests
    /\ upstreamCalls = 0
    /\ upOpened = FALSE
    /\ upStatus = 0
    /\ upBodyRead = ""
    /\ respStatus = 0
    /\ respBody = ""
    /\ upBodyClosed = FALSE
    /\ outMaxTokens = 0
    /\ upJSON = NoResponse
    /\ reply = NoReply
    /\ ctxCancelled = FALSE
    /\ buffered = 0
    /\ nread = 0
    /\ lastLine = NoLine
    /\ consumed = <<>>
    /\ events = <<>>
    /\ encoderErr = FALSE
    /\ toolStates = EmptyToolStates
    /\ nextContentBlockIndex = 0
    /\ currentContentBlockIndex = -1
    /\ currentBlockType = ""
    /\ hasTextBlock = FALSE
    /\ finishReason = ""
    /\ sawDone = FALSE

\* Nothing has been handed to the converter alone; there is no second
\* worker.
InitAlone ==
    /\ convReq = [system |-> <<>>, messages |-> <<>>]
    /\ convOut = NotConverted
    /\ other = NoWorker

Init == InitWith(InboundRequests) /\ InitAlone

\* ------------------------------------------------------------------------
\* The framer's local variables as one record `s`, with `out` the events
\* emitted since the record was taken.
\* ------------------------------------------------------------------------

Framer ==
    [toolStates |-> toolStates,
     nextContentBlockIndex |-> nextContentBlockIndex,
     currentContentBlockIndex |-> currentContentBlockIndex,
     currentBlockType |-> currentBlockType,
     hasTextBlock |-> hasTextBlock,
     finishReason |-> finishReason,
     out |-> <<>>]

Emit(s, e) == [s EXCEPT !.out = Append(@, e)]

\* assignContentBlockIndex without the increment.
assignContentBlockIndexStuck(s) == s

\* server.go:238-242.  The index returned is s.nextContentBlockIndex.
assignContentBlockIndex(s) ==
    [s EXCEPT !.nextContentBlockIndex = @ + 1]

\* server.go:244-253
closeCurrentBlock(s) ==
    IF s.currentContentBlockIndex >= 0
    THEN [Emit(s, ContentBlockStop(s.currentContentBlockIndex))
            EXCEPT !.currentContentBlockIndex = -1, !.currentBlockType = ""]
    ELSE s

\* server.go:290-293
ResolveToolIndex(index) == IF index < 0 THEN 0 ELSE index

\* server.go:296-299
ToolCallID(tc, toolIndex) ==
    IF TrimSpace(tc.id) = <<>> THEN FallbackToolID(toolIndex) ELSE TrimSpace(tc.id)

\* server.go:300-303
ToolCallName(tc, toolIndex) ==
    IF TrimSpace(tc.name) = <<>> THEN FallbackToolName(toolIndex) ELSE TrimSpace(tc.name)

PutToolState(ts, toolIndex, state) ==
    [t \in DOMAIN ts \cup {toolIndex} |-> IF t = toolIndex THEN state ELSE ts[t]]

\* server.go:305-322: first fragment of a tool index.
OpenToolBlock(s, toolIndex, tcID, tcName) ==
    LET c     == closeCurrentBlock(s)
        idx   == c.nextContentBlockIndex
        a     == assignContentBlockIndex(c)
        state == [contentBlockIndex |-> idx, id |-> tcID, name |-> tcName]
    IN  [Emit(a, ToolUseBlockStart(idx, state.id, state.name))
            EXCEPT !.toolStates = PutToolState(@, toolIndex, state),
                   !.currentContentBlockIndex = idx,
                   !.currentBlockType = "tool_use"]

\* MergeToolBlock giving the tool a fresh block on every fragment.
MergeToolBlockReopen(s, toolIndex, tcID, tcName) ==
    OpenToolBlock(s, toolIndex, tcID, tcName)

\* server.go:323-332: a later fragment of a tool index.
MergeToolBlock(s, toolIndex, tcID, tcName) ==
    LET old   == s.toolStates[toolIndex]
        state == [old EXCEPT
                    !.id   = IF @ = <<>> /\ tcID # <<>> THEN tcID ELSE @,
                    !.name = IF @ = <<>> /\ tcName # <<>> THEN tcName ELSE @]
    IN  [s EXCEPT !.toolStates = PutToolState(@, toolIndex, state),
                  !.currentContentBlockIndex = state.contentBlockIndex,
                  !.currentBlockType = "tool_use"]

\* server.go:334-345: the index an input_json_delta carries.
ToolDeltaIndex(s, toolIndex) == s.toolStates[toolIndex].contentBlockIndex

\* server.go:289-345: one iteration of the loop over delta.ToolCalls.
HandleToolCall(s, tc) ==
    LET toolIndex == ResolveToolIndex(tc.index)
        tcID      == ToolCallID(tc, toolIndex)
        tcName    == ToolCallName(tc, toolIndex)
        s1        == IF toolIndex \notin DOMAIN s.toolStates
                     THEN OpenToolBlock(s, toolIndex, tcID, tcName)
                     ELSE MergeToolBlock(s, toolIndex, tcID, tcName)
    IN  IF tc.args # ""
        THEN Emit(s1, InputJsonDelta(ToolDeltaIndex(s1, toolIndex), tc.args))
        ELSE s1

\* server.go:287-347
RECURSIVE HandleToolCalls(_, _)
HandleToolCalls(s, toolCalls) ==
    IF toolCalls = <<>> THEN s
    ELSE HandleToolCalls(HandleToolCall(s, Head(toolCalls)), Tail(toolCalls))

\* server.go:354
TextMustClose(s) == s.currentBlockType # "" /\ s.currentBlockType # "text"

\* server.go:357-370
OpenTextBlock(s) ==
    IF ~s.hasTextBlock
    THEN LET idx == s.nextContentBlockIndex
             a   == assignContentBlockIndex(s)
         IN  [Emit(a, TextBlockStart(idx))
                 EXCEPT !.hasTextBlock = TRUE,
                        !.currentContentBlockIndex = idx,
                        !.currentBlockType = "text"]
    ELSE s

\* The text_delta carrying the next unassigned index.
TextDeltaIndexNext(s) == s.nextContentBlockIndex

\* server.go:371-378: the index a text_delta carries.
TextDeltaIndex(s) == s.currentContentBlockIndex

\* server.go:349-379
HandleText(s, content) ==
    IF content # <<>> /\ content[1] # ""
    THEN LET s1 == IF TextMustClose(s) THEN closeCurrentBlock(s) ELSE s
             s2 == OpenTextBlock(s1)
         IN  Emit(s2, TextDelta(TextDeltaIndex(s2), content[1]))
    ELSE s

\* server.go:381-396
HandleFinish(s, finish) ==
    IF finish # <<>>
    THEN [Emit(s, MessageDelta(MapFinishReason(finish[1])))
             EXCEPT !.finishReason = finish[1]]
    ELSE s

\* HandleChunk looking at the text before the tool calls.
HandleChunkTextFirst(s, chunk) ==
    LET delta == chunk.choices[1]
    IN  HandleFinish(HandleToolCalls(HandleText(s, delta.content), delta.toolCalls),
                     delta.finish)

\* HandleChunk treating a recorded finish reason as the end of the stream:
\* the chunks after it are dropped.
HandleChunkStopAfterFinish(s, chunk) ==
    LET delta == chunk.choices[1]
    IN  IF s.finishReason # ""
        THEN s
        ELSE HandleFinish(HandleText(HandleToolCalls(s, delta.toolCalls),
                                     delta.content),
                          delta.finish)

\* server.go:285-396: the body of the loop for one decoded chunk.
HandleChunk(s, chunk) ==
    LET delta == chunk.choices[1]
    IN  HandleFinish(HandleText(HandleToolCalls(s, delta.toolCalls), delta.content),
                     delta.finish)

\* CloseStream with message_stop emitted before the open block is closed.
CloseStreamStopFirst(s) ==
    LET d == IF s.finishReason = "" THEN Emit(s, MessageDelta("end_turn")) ELSE s
    IN  closeCurrentBlock(Emit(d, MessageStop))

\* CloseStream without the default message_delta.
CloseStreamNoDefault(s) == Emit(closeCurrentBlock(s), MessageStop)

\* server.go:399-418: the closing sequence.
CloseStream(s) ==
    LET c == closeCurrentBlock(s)
        d == IF c.finishReason = "" THEN Emit(c, MessageDelta("end_turn")) ELSE c
    IN  Emit(d, MessageStop)

\* LineClass looking for the sentinel before the data marker.
LineClassDoneAnywhere(line) ==
    CASE line.prefix = "" /\ line.payload = "" -> "skip"
      [] line.prefix = ":"                     -> "skip"
      [] line.payload = "[DONE]"               -> "done"
      [] line.prefix # "data:"                 -> "skip"
      [] line.payload # "json"                 -> "skip"
      [] line.chunk.choices = <<>>             -> "skip"
      [] OTHER                                 -> "chunk"

\* server.go:263-282: what the loop does with a line.
LineClass(line) ==
    CASE line.prefix = "" /\ line.payload = "" -> "skip"      \* line == ""
      [] line.prefix = ":"                     -> "skip"      \* comment
      [] line.prefix # "data:"                 -> "skip"      \* no data marker
      [] line.payload = "[DONE]"               -> "done"
      [] line.payload # "json"                 -> "skip"      \* Unmarshal fails
      [] line.chunk.choices = <<>>             -> "skip"      \* no choices
      [] OTHER                                 -> "chunk"

\* ------------------------------------------------------------------------
\* Actions.
\* ------------------------------------------------------------------------

\* The framer variables after the steps recorded in s.
SetFramer(s) ==
    /\ toolStates' = s.toolStates
    /\ nextContentBlockIndex' = s.nextContentBlockIndex
    /\ currentContentBlockIndex' = s.currentContentBlockIndex
    /\ currentBlockType' = s.currentBlockType
    /\ hasTextBlock' = s.hasTextBlock
    /\ finishReason' = s.finishReason

\* The encoder is called with each event of out; writeFails says whether a
\* write to the client failed among them.  The callers drop the encoder's
\* error (`_ = encoder(...)`).
Encode(out, writeFails) ==
    /\ events' = events \o out
    /\ encoderErr' = (encoderErr \/ (writeFails /\ out # <<>>))

\* ------------------------------------------------------------------------
\* HandleMessages before the upstream call (server.go:23-60).
\* ------------------------------------------------------------------------

\* strings.ToLower on the tokens of a header value.
ToLower(v) ==
    [i \in 1..Len(v) |->
        CASE v[i] = "Bearer" -> "bearer"
          [] v[i] = "Basic"  -> "basic"
          [] OTHER           -> v[i]]

\* strings.HasPrefix(v, "bearer ")
HasBearerPrefix(v) == Len(v) >= 2 /\ v[1] = "bearer" /\ v[2] = " "

\* server.go:90-100.  subtle.ConstantTimeCompare(...) == 1 is equality.
checkInboundAuth(authorization, apiKey, expected) ==
    LET auth == TrimSpace(authorization)
        key  == TrimSpace(apiKey)
    IN  IF HasBearerPrefix(ToLower(auth))
        THEN TrimSpace(SubSeq(auth, 3, Len(auth))) = expected
        ELSE IF key # <<>>
             THEN key = expected
             ELSE FALSE

\* server.go:25: the check runs when a server secret is configured.
Authorized(r) ==
    r.secret = <<>> \/ checkInboundAuth(r.authorization, r.apiKey, r.secret)

\* server.go:32: json.NewDecoder(r.Body).Decode(&req) returns an error.
DecodeFails(body) == body.syntax \in {"garbage", "mistyped"}

\* part_000:28-40: json.Unmarshal of the content into a string succeeds for
\* a JSON string and for null; into []AnthropicContentBlock for an array of
\* blocks.
ContentParses(content) == content \in {"string", "null", "blocks"}

\* part_000:21-55: ConvertAnthropicToOpenAI returns an error.  A message
\* whose trimmed role is empty is passed over before its content is looked
\* at (part_000:23-26).
ConvertFails(messages) ==
    \E i \in 1..Len(messages) :
        /\ TrimSpace(messages[i].role) # <<>>
        /\ ~ContentParses(messages[i].content)

\* server.go:31-51: the code of the 400 response, "" if there is none.
BadRequestCode(body) ==
    IF DecodeFails(body) THEN "invalid_json"
    ELSE IF TrimSpace(body.model) = <<>> THEN "missing_model"
    ELSE IF ConvertFails(body.messages) THEN "request_conversion_failed"
    ELSE ""

\* What the steps of HandleMessages before the upstream call leave alone.
frontVars == <<upstreamCalls, upOpened, upStatus, upBodyRead, upBodyClosed,
               upJSON, reply, apartVars, ctxCancelled, streamVars, events, encoderErr, framerVars>>

\* server.go:25-29
RejectUnauthorized ==
    /\ pc = "inbound"
    /\ ~Authorized(inbound)
    /\ pc' = "returned"
    /\ ret' = "unauthorized"
    /\ respStatus' = 401
    /\ respBody' = "unauthorized"
    /\ UNCHANGED <<inbound, outMaxTokens, frontVars>>

\* server.go:31-51
RejectBadRequest ==
    /\ pc = "inbound"
    /\ Authorized(inbound)
    /\ BadRequestCode(inbound.body) # ""
    /\ pc' = "returned"
    /\ ret' = "bad_request"
    /\ respStatus' = 400
    /\ respBody' = BadRequestCode(inbound.body)
    /\ UNCHANGED <<inbound, outMaxTokens, frontVars>>

\* A missing max_tokens decodes to 0 (the zero value of the int field).
DecodedMaxTokens(body) == IF body.maxTokens = <<>> THEN 0 ELSE body.maxTokens[1]

\* OutboundMaxTokens without the default.
OutboundMaxTokensAsGiven(body) == DecodedMaxTokens(body)

\* server.go:42-44 and part_000:64-67: max_tokens of the outbound request.
OutboundMaxTokens(body) ==
    IF DecodedMaxTokens(body) = 0 THEN 1024 ELSE DecodedMaxTokens(body)

\* server.go:42-62: the outbound request is built and the request goes to
\* proxyStream or to doUpstreamJSON.
Admit ==
    /\ pc = "inbound"
    /\ Authorized(inbound)
    /\ BadRequestCode(inbound.body) = ""
    /\ pc' = IF inbound.body.stream THEN "start" ELSE "call"
    /\ inbound' = Admitted(inbound.body.stream)
    /\ outMaxTokens' = OutboundMaxTokens(inbound.body)
    /\ UNCHANGED <<ret, respStatus, respBody, frontVars>>

\* ------------------------------------------------------------------------
\* The Response Converter (part_000:266-326).
\* ------------------------------------------------------------------------

\* json.Unmarshal([]byte(v), &input) on the empty map: an object replaces
\* it, null sets it to nil, anything else is an error and leaves it as it
\* was.  The error is dropped (part_000:283).
UnmarshalIntoMap(text) ==
    CASE text = "{\"a\":1}" -> ObjectInput(text)
      [] text = "null"      -> NullInput
      [] OTHER              -> ObjectInput("{}")

\* fmt.Sprintf("%v", v) of a decoded JSON value that is no string and no
\* object.
SprintfV(raw) == IF raw = "null" THEN "<nil>" ELSE raw

\* part_000:280-289: the input of the tool_use block.
ToolInput(arguments) ==
    CASE arguments.kind = "string" -> UnmarshalIntoMap(arguments.raw)
      [] arguments.kind = "object" -> ObjectInput(arguments.raw)
      [] OTHER                     -> FallbackInput(SprintfV(arguments.raw))

\* part_000:278-296
ToolUseBlocks(toolCalls) ==
    [k \in 1..Len(toolCalls) |->
        ToolUseBlock(toolCalls[k].id, toolCalls[k].name,
                     ToolInput(toolCalls[k].arguments))]

\* part_000:269-297: the content blocks and the finish reason.
ReplyContent(resp) ==
    IF resp.choices = <<>> THEN <<>>
    ELSE LET ch == resp.choices[1]
         IN  (IF ch.content # <<>> /\ ch.content[1] # ""
              THEN <<TextBlock(ch.content[1])>> ELSE <<>>)
             \o ToolUseBlocks(ch.toolCalls)

ReplyFinishReason(resp) ==
    IF resp.choices = <<>> THEN "" ELSE resp.choices[1].finish

\* part_000:299-309
ReplyUsageOf(resp) ==
    IF resp.usage = <<>> THEN ReplyUsage(0, 0, 0)
    ELSE LET u         == resp.usage[1]
             cacheRead == IF u.cached # <<>> THEN u.cached[1] ELSE 0
         IN  ReplyUsage(u.prompt - cacheRead, u.completion, cacheRead)

\* part_000:266-326
ConvertOpenAIToAnthropic(resp) ==
    Reply(ReplyContent(resp), MapFinishReason(ReplyFinishReason(resp)),
          ReplyUsageOf(resp))

\* ------------------------------------------------------------------------
\* The non-streaming path (server.go:62-87, doUpstreamJSON 114-142).
\* ------------------------------------------------------------------------

\* What the non-streaming path leaves alone.
jsonVars == <<inbound, outMaxTokens, upJSON, reply, apartVars, ctxCancelled,
              streamVars,
              events, encoderErr, framerVars>>

\* JSONCallFails trying the call once more before it gives up.
JSONCallFailsRetry ==
    /\ pc = "call"
    /\ upstreamCalls < 2
    /\ upstreamCalls' = upstreamCalls + 1
    /\ IF upstreamCalls = 0
       THEN UNCHANGED <<pc, ret, respStatus, respBody>>
       ELSE /\ pc' = "returned"
            /\ ret' = "transport"
            /\ respStatus' = 502
            /\ respBody' = "upstream_request_failed"
    /\ UNCHANGED <<upOpened, upStatus, upBodyRead, upBodyClosed, jsonVars>>

\* server.go:129-132 and 63-67: client.Do fails.
JSONCallFails ==
    /\ pc = "call"
    /\ pc' = "returned"
    /\ ret' = "transport"
    /\ upstreamCalls' = upstreamCalls + 1
    /\ respStatus' = 502
    /\ respBody' = "upstream_request_failed"
    /\ UNCHANGED <<upOpened, upStatus, upBodyRead, upBodyClosed, jsonVars>>

\* JSONBodyReadFails returning the error without closing the body.
JSONBodyReadFailsLeak ==
    /\ pc = "call"
    /\ \E o \in UpstreamOutcomes \ {"error"} : upStatus' = StatusCode(o)
    /\ pc' = "returned"
    /\ ret' = "transport"
    /\ upstreamCalls' = upstreamCalls + 1
    /\ upOpened' = TRUE
    /\ upBodyRead' = "part"
    /\ respStatus' = 502
    /\ respBody' = "upstream_request_failed"
    /\ UNCHANGED <<upBodyClosed, jsonVars>>

\* server.go:134-138 and 63-67: client.Do returned a response, of whatever
\* status, and io.ReadAll of its body fails; doUpstreamJSON closes the body
\* and returns the error.
JSONBodyReadFails ==
    /\ pc = "call"
    /\ \E o \in UpstreamOutcomes \ {"error"} : upStatus' = StatusCode(o)
    /\ pc' = "returned"
    /\ ret' = "transport"
    /\ upstreamCalls' = upstreamCalls + 1
    /\ upOpened' = TRUE
    /\ upBodyRead' = "part"
    /\ upBodyClosed' = TRUE
    /\ respStatus' = 502
    /\ respBody' = "upstream_request_failed"
    /\ UNCHANGED jsonVars

\* JSONStatusPassthrough answering every non-2xx status with a 502 of the
\* proxy's own.
JSONStatusMapped ==
    /\ pc = "call"
    /\ \E o \in UpstreamOutcomes \ {"error"} :
         /\ IsNon2xx(StatusCode(o))
         /\ upStatus' = StatusCode(o)
    /\ pc' = "returned"
    /\ ret' = "status"
    /\ upstreamCalls' = upstreamCalls + 1
    /\ upOpened' = TRUE
    /\ upBodyRead' = "all"
    /\ upBodyClosed' = TRUE
    /\ respStatus' = 502
    /\ respBody' = "invalid_upstream_json"
    /\ UNCHANGED jsonVars

\* server.go:70-76: non-2xx upstream status, passed through.
JSONStatusPassthrough ==
    /\ pc = "call"
    /\ \E o \in UpstreamOutcomes \ {"error"} :
         /\ IsNon2xx(StatusCode(o))
         /\ upStatus' = StatusCode(o)
         /\ respStatus' = StatusCode(o)
    /\ pc' = "returned"
    /\ ret' = "status"
    /\ upstreamCalls' = upstreamCalls + 1
    /\ upOpened' = TRUE
    /\ upBodyRead' = "all"
    /\ upBodyClosed' = TRUE
    /\ respBody' = "raw"
    /\ UNCHANGED jsonVars

\* server.go:78-84: the 2xx body is no chat completion.
JSONInvalidUpstream ==
    /\ pc = "call"
    /\ \E o \in UpstreamOutcomes \ {"error"} :
         /\ ~IsNon2xx(StatusCode(o))
         /\ upStatus' = StatusCode(o)
    /\ pc' = "returned"
    /\ ret' = "invalid_upstream"
    /\ upstreamCalls' = upstreamCalls + 1
    /\ upOpened' = TRUE
    /\ upBodyRead' = "all"
    /\ upBodyClosed' = TRUE
    /\ respStatus' = 502
    /\ respBody' = "invalid_upstream_json"
    /\ UNCHANGED jsonVars

\* server.go:85-87: the converted response; the first Write sets status 200.
JSONConverted ==
    /\ pc = "call"
    /\ \E o \in UpstreamOutcomes \ {"error"} :
         /\ ~IsNon2xx(StatusCode(o))
         /\ upStatus' = StatusCode(o)
    /\ pc' = "returned"
    /\ ret' = "ok"
    /\ upstreamCalls' = upstreamCalls + 1
    /\ upOpened' = TRUE
    /\ upBodyRead' = "all"
    /\ upBodyClosed' = TRUE
    /\ respStatus' = 200
    /\ respBody' = "converted"
    /\ \E resp \in ResponseInputs :
         /\ upJSON' = resp
         /\ reply' = ConvertOpenAIToAnthropic(resp)
    /\ UNCHANGED <<inbound, outMaxTokens, apartVars, ctxCancelled, streamVars,
                   events, encoderErr, framerVars>>

\* ------------------------------------------------------------------------
\* proxyStream (server.go:144-425).
\* ------------------------------------------------------------------------

\* What proxyStream leaves alone before its read loop.
startVars == <<inbound, outMaxTokens, upJSON, reply, apartVars, ctxCancelled,
               streamVars>>

\* UpstreamCallFails with the SSE headers and message_start sent before the
\* outcome of client.Do is known.
UpstreamCallFailsAfterStart ==
    /\ pc = "start"
    /\ pc' = "returned"
    /\ ret' = "transport"
    /\ upstreamCalls' = upstreamCalls + 1
    /\ respStatus' = 200
    /\ respBody' = "sse"
    /\ \E writeFails \in BOOLEAN : Encode(<<MessageStart>>, writeFails)
    /\ UNCHANGED <<upOpened, upStatus, upBodyRead, upBodyClosed, startVars,
                   framerVars>>

\* server.go:159-163: client.Do fails.
UpstreamCallFails ==
    /\ pc = "start"
    /\ pc' = "returned"
    /\ ret' = "transport"
    /\ upstreamCalls' = upstreamCalls + 1
    /\ respStatus' = 502
    /\ respBody' = "upstream_request_failed"
    /\ UNCHANGED <<upOpened, upStatus, upBodyRead, upBodyClosed, startVars,
                   events, encoderErr, framerVars>>

\* server.go:167-174: non-2xx upstream status, passed through with the
\* bytes io.ReadAll returned; its error is dropped (`raw, _ :=`).
UpstreamStatusPassthrough ==
    /\ pc = "start"
    /\ \E o \in UpstreamOutcomes \ {"error"} :
         /\ IsNon2xx(StatusCode(o))
         /\ upStatus' = StatusCode(o)
         /\ respStatus' = StatusCode(o)
    /\ \E readFails \in BOOLEAN :
         /\ upBodyRead' = IF readFails THEN "part" ELSE "all"
         /\ respBody' = IF readFails THEN "raw_truncated" ELSE "raw"
    /\ pc' = "returned"
    /\ ret' = "status"
    /\ upstreamCalls' = upstreamCalls + 1
    /\ upOpened' = TRUE
    /\ upBodyClosed' = TRUE
    /\ UNCHANGED <<startVars, events, encoderErr, framerVars>>

\* server.go:176-186: the ResponseWriter is no http.Flusher.
NoFlusher ==
    /\ pc = "start"
    /\ \E o \in UpstreamOutcomes \ {"error"} :
         /\ ~IsNon2xx(StatusCode(o))
         /\ upStatus' = StatusCode(o)
    /\ pc' = "returned"
    /\ ret' = "flusher"
    /\ upstreamCalls' = upstreamCalls + 1
    /\ upOpened' = TRUE
    /\ respStatus' = 200
    /\ respBody' = "streaming_not_supported"
    /\ upBodyClosed' = TRUE
    /\ UNCHANGED <<upBodyRead, startVars, events, encoderErr, framerVars>>

\* server.go:176-253: 2xx, headers, message_start, the framer's variables.
StreamBegin ==
    /\ pc = "start"
    /\ \E o \in UpstreamOutcomes \ {"error"} :
         /\ ~IsNon2xx(StatusCode(o))
         /\ upStatus' = StatusCode(o)
    /\ pc' = "loop"
    /\ upstreamCalls' = upstreamCalls + 1
    /\ upOpened' = TRUE
    /\ respStatus' = 200
    /\ respBody' = "sse"
    /\ \E writeFails \in BOOLEAN : Encode(<<MessageStart>>, writeFails)
    /\ UNCHANGED <<ret, upBodyRead, upBodyClosed, startVars, framerVars>>

\* CanRead for an upstream request built without the inbound context.
CanReadAlways == TRUE

\* reader.ReadString returns data: the context is live, or the bytes were
\* already in the reader's buffer when it was cancelled.
CanRead == ~ctxCancelled \/ buffered > 0

\* One line leaves the reader.
TakeLine(line) ==
    /\ nread' = nread + 1
    /\ lastLine' = line
    /\ buffered' = IF ctxCancelled THEN buffered - 1 ELSE buffered

\* server.go:256-282: a line that is skipped.
ReadSkippedLine ==
    /\ pc = "loop"
    /\ nread < MaxLines
    /\ CanRead
    /\ \E line \in LineInputs :
         /\ LineClass(line) = "skip"
         /\ TakeLine(line)
    /\ UNCHANGED <<pc, ret, respStatus, respBody, upBodyClosed, ctxCancelled,
                   callVars, consumed, events, encoderErr, framerVars>>

\* server.go:256-397: a line, one of lines, that carries a chunk with
\* choices.
ReadChunkFrom(lines) ==
    /\ pc = "loop"
    /\ nread < MaxLines
    /\ CanRead
    /\ \E line \in lines, writeFails \in BOOLEAN :
         /\ LineClass(line) = "chunk"
         /\ TakeLine(line)
         /\ LET s == HandleChunk(Framer, line.chunk)
            IN  /\ SetFramer(s)
                /\ Encode(s.out, writeFails)
         /\ consumed' = Append(consumed, line.chunk)
    /\ UNCHANGED <<pc, ret, respStatus, respBody, upBodyClosed, ctxCancelled,
                   callVars, sawDone>>

ReadChunk == ReadChunkFrom(LineInputs)

\* The return of proxyStream after the closing sequence (server.go:399-424).
Finish(done) ==
    /\ pc' = "returned"
    /\ ret' = "nil"
    /\ sawDone' = done
    /\ upBodyClosed' = TRUE
    /\ \E writeFails \in BOOLEAN :
         LET s == CloseStream(Framer)
         IN  /\ SetFramer(s)
             /\ Encode(s.out, writeFails)
    /\ UNCHANGED <<respStatus, respBody, consumed, ctxCancelled, callVars>>

\* ReadDone recording the sentinel and going on with the loop.
ReadDoneContinues ==
    /\ pc = "loop"
    /\ nread < MaxLines
    /\ CanRead
    /\ \E line \in LineInputs :
         /\ LineClass(line) = "done"
         /\ TakeLine(line)
    /\ sawDone' = TRUE
    /\ UNCHANGED <<pc, ret, respStatus, respBody, upBodyClosed, ctxCancelled,
                   callVars, consumed, events, encoderErr, toolStates,
                   nextContentBlockIndex, currentContentBlockIndex,
                   currentBlockType, hasTextBlock, finishReason>>

\* server.go:270-274 and 399-424: the [DONE] sentinel.
ReadDone ==
    /\ pc = "loop"
    /\ nread < MaxLines
    /\ CanRead
    /\ \E line \in LineInputs :
         /\ LineClass(line) = "done"
         /\ TakeLine(line)
    /\ Finish(TRUE)

\* server.go:256-260 and 399-424: io.EOF.  ReadString returns the bytes after
\* the last newline together with io.EOF; the loop breaks without looking at
\* them.
ReadEOF ==
    /\ pc = "loop"
    /\ CanRead
    /\ UNCHANGED <<nread, lastLine, buffered>>
    /\ Finish(FALSE)

\* server.go:256-261: any other read error (the upstream connection breaks).
ReadError ==
    /\ pc = "loop"
    /\ pc' = "returned"
    /\ ret' = "read"
    /\ upBodyClosed' = TRUE
    /\ UNCHANGED <<respStatus, respBody, ctxCancelled, callVars, streamVars,
                   events, encoderErr, framerVars>>

Next ==
    \/ RejectUnauthorized
    \/ RejectBadRequest
    \/ Admit
    \/ JSONCallFails
    \/ JSONBodyReadFails
    \/ JSONStatusPassthrough
    \/ JSONInvalidUpstream
    \/ JSONConverted
    \/ UpstreamCallFails
    \/ UpstreamStatusPassthrough
    \/ NoFlusher
    \/ StreamBegin
    \/ ReadSkippedLine
    \/ ReadChunk
    \/ ReadDone
    \/ ReadEOF
    \/ ReadError

Spec == Init /\ [][Next]_vars

\* ------------------------------------------------------------------------
\* The client goes away while the stream is in progress.
\*
\* The upstream request is built with r.Context() (server.go:152), which the
\* http server cancels when the client's connection closes.  The transport
\* then fails the pending read of the upstream body; lines that the
\* bufio.Reader (server.go:255) had already buffered are still returned by
\* ReadString before the error is.
\* ------------------------------------------------------------------------

\* Bound on the lines that sit in the reader's buffer at cancellation.
MaxBuffered == 1

Min(a, b) == IF a < b THEN a ELSE b

\* The http server cancels r.Context().
Cancel ==
    /\ pc = "loop"
    /\ ~ctxCancelled
    /\ ctxCancelled' = TRUE
    /\ \E n \in 0..Min(MaxBuffered, MaxLines - nread) : buffered' = n
    /\ UNCHANGED <<pc, ret, respStatus, respBody, upBodyClosed, callVars, nread,
                   lastLine, consumed, events, encoderErr, framerVars>>

\* server.go:256-261: ReadString returns the context's error.
ReadCancelled ==
    /\ pc = "loop"
    /\ ctxCancelled
    /\ buffered = 0
    /\ pc' = "returned"
    /\ ret' = "read"
    /\ upBodyClosed' = TRUE
    /\ UNCHANGED <<respStatus, respBody, ctxCancelled, callVars, streamVars,
                   events, encoderErr, framerVars>>

\* The requests and the lines of the runs with cancellation.
CancelRequests ==
    {InboundRequest(secret, auth, <<>>, Body("json", model, msgs, stream)) :
        secret \in {<<"s">>},
        auth \in {<<"Bearer", " ", "s">>, <<"Bearer", " ", "x">>},
        model \in {<<"m">>, <<>>},
        msgs \in {<<Message(<<"user">>, "string")>>},
        stream \in BOOLEAN}

CancelLines ==
    {CommentLine, DoneLine,
     DataLine(Chunk(<<>>, <<"He">>, <<>>)),
     DataLine(Chunk(<<FragFull(0)>>, <<>>, <<"tool_calls">>))}

InitCancel == Init /\ inbound \in CancelRequests

\* A read of the loop, of one of CancelLines.
ReadLine ==
    /\ ReadSkippedLine \/ ReadChunk \/ ReadDone
    /\ lastLine' \in CancelLines

NextCancel ==
    \/ RejectUnauthorized
    \/ RejectBadRequest
    \/ Admit
    \/ JSONCallFails
    \/ JSONBodyReadFails
    \/ JSONStatusPassthrough
    \/ JSONInvalidUpstream
    \/ JSONConverted
    \/ UpstreamCallFails
    \/ UpstreamStatusPassthrough
    \/ NoFlusher
    \/ StreamBegin
    \/ ReadLine
    \/ ReadEOF
    \/ ReadError
    \/ Cancel
    \/ ReadCancelled

\* The handler's goroutine keeps running: a read whose bytes are buffered
\* returns, and a read on a cancelled context returns its error.
SpecCancel ==
    /\ InitCancel
    /\ [][NextCancel]_vars
    /\ WF_vars(ctxCancelled /\ ReadLine)
    /\ WF_vars(ReadCancelled)

\* ------------------------------------------------------------------------
\* Requests with and without max_tokens, streams of finish reasons.
\* ------------------------------------------------------------------------

ReplyRequests ==
    {InboundRequest(<<>>, <<>>, <<>>,
        WithMaxTokens(Body("json", <<"m">>, <<Message(<<"user">>, "string")>>, stream),
                      maxTokens)) :
        stream \in BOOLEAN, maxTokens \in {<<>>, <<0>>, <<7>>}}

\* One chunk per finish reason, with nothing else in it.
FinishLines == {DataLine(Chunk(<<>>, <<>>, <<f>>)) : f \in FinishInputs}

InitReply == InitWith(ReplyRequests) /\ InitAlone

NextReply ==
    \/ Admit
    \/ JSONInvalidUpstream
    \/ JSONConverted
    \/ StreamBegin
    \/ ReadChunkFrom(FinishLines)
    \/ ReadEOF

SpecReply == InitReply /\ [][NextReply]_vars

\* ------------------------------------------------------------------------
\* Reading the event sequence.
\* ------------------------------------------------------------------------

IsBlockStart(e)     == e.event = "content_block_start"
IsToolStart(e)      == IsBlockStart(e) /\ e.btype = "tool_use"
IsTextStart(e)      == IsBlockStart(e) /\ e.btype = "text"
IsBlockStop(e)      == e.event = "content_block_stop"
IsBlockDelta(e)     == e.event = "content_block_delta"
IsTextDelta(e)      == IsBlockDelta(e) /\ e.dtype = "text_delta"
IsInputJsonDelta(e) == IsBlockDelta(e) /\ e.dtype = "input_json_delta"
IsMessageStart(e)   == e.event = "message_start"
IsMessageDelta(e)   == e.event = "message_delta"
IsMessageStop(e)    == e.event = "message_stop"

Positions == 1..Len(events)

\* The blocks open after the first k events: started, and not stopped since.
OpenBlocks(k) ==
    {events[p].index : p \in
        {p \in 1..k : /\ IsBlockStart(events[p])
                      /\ \A q \in (p + 1)..k :
                           ~(IsBlockStop(events[q]) /\ events[q].index = events[p].index)}}

\* proxyStream returned nil: the source ended by EOF or by [DONE].
StreamCompleted == pc = "returned" /\ ret = "nil"

\* ------------------------------------------------------------------------
\* C1: at most one content block is open after any prefix of the emitted
\* events, whatever the order of tool-call fragments and text deltas.
\* ------------------------------------------------------------------------
C1_AtMostOneOpenBlock ==
    \A k \in 0..Len(events) : Cardinality(OpenBlocks(k)) <= 1

\* ------------------------------------------------------------------------
\* C2: in a stream that ended by EOF or [DONE], every content_block_start
\* with index i is followed by exactly one content_block_stop with index i,
\* and no content_block_stop names an index that is not open at that moment.
\* ------------------------------------------------------------------------
C2_BlocksWellFormed ==
    StreamCompleted =>
        /\ \A p \in Positions :
             IsBlockStart(events[p]) =>
                Cardinality({q \in (p + 1)..(Len(events) - 1) :
                                /\ IsBlockStop(events[q])
                                /\ events[q].index = events[p].index}) = 1
        /\ \A q \in Positions :
             IsBlockStop(events[q]) => events[q].index \in OpenBlocks(q - 1)

\* ------------------------------------------------------------------------
\* C3: a text block is opened at most once, and every text_delta carries the
\* index of that one content_block_start of type text.
\* ------------------------------------------------------------------------
C3_TextDeltasInTheTextBlock ==
    /\ Cardinality({p \in Positions : IsTextStart(events[p])}) <= 1
    /\ \A p \in Positions :
         IsTextDelta(events[p]) =>
            \E q \in 1..(p - 1) :
               IsTextStart(events[q]) /\ events[q].index = events[p].index

\* ------------------------------------------------------------------------
\* C4: the first event emitted is the one message_start; when the source
\* ended by EOF or [DONE] the last event emitted is the one message_stop;
\* nothing is emitted before message_start or after message_stop.
\* ------------------------------------------------------------------------
C4_MessageFraming ==
    /\ events # <<>> => IsMessageStart(events[1])
    /\ \A k \in Positions : IsMessageStart(events[k]) => k = 1
    /\ \A k \in Positions : IsMessageStop(events[k]) => k = Len(events) /\ StreamCompleted
    /\ StreamCompleted => events # <<>> /\ IsMessageStop(events[Len(events)])

\* A completed stream with content blocks between the two framing events.
C4_Witness ==
    /\ StreamCompleted
    /\ Len(events) >= 6
    /\ \E k \in Positions : IsToolStart(events[k])
    /\ \E k \in Positions : IsTextDelta(events[k])

\* ------------------------------------------------------------------------
\* C5: once an emission has failed, no further upstream line is read and no
\* further emission is attempted.
\* ------------------------------------------------------------------------
C5_AbandonAfterFailedWrite ==
    [][encoderErr => (nread' = nread /\ events' = events)]_vars

\* ------------------------------------------------------------------------
\* Reading the input history.
\* ------------------------------------------------------------------------

\* The tool-call fragments of the chunks, in arrival order.
RECURSIVE ToolCallsOf(_)
ToolCallsOf(chunks) ==
    IF chunks = <<>> THEN <<>>
    ELSE Head(chunks).choices[1].toolCalls \o ToolCallsOf(Tail(chunks))

Fragments == ToolCallsOf(consumed)

\* The tool index a fragment counts for: a negative index counts as 0.
CountsAs(index) == IF index < 0 THEN 0 ELSE index

\* The distinct tool indices of the fragments, in order of first arrival.
RECURSIVE FirstArrivals(_, _)
FirstArrivals(frags, seen) ==
    IF frags = <<>> THEN <<>>
    ELSE LET t == CountsAs(Head(frags).index)
         IN  IF t \in seen THEN FirstArrivals(Tail(frags), seen)
             ELSE <<t>> \o FirstArrivals(Tail(frags), seen \cup {t})

ToolOrder == FirstArrivals(Fragments, {})

ToolStarts == SelectSeq(events, IsToolStart)

PositionOf(t, order) == CHOOSE k \in 1..Len(order) : order[k] = t

\* The first non-empty (trimmed) id / name among the fragments of tool t.
RECURSIVE FirstID(_, _)
FirstID(frags, t) ==
    IF frags = <<>> THEN <<>>
    ELSE IF CountsAs(Head(frags).index) = t /\ TrimSpace(Head(frags).id) # <<>>
         THEN TrimSpace(Head(frags).id)
         ELSE FirstID(Tail(frags), t)

RECURSIVE FirstName(_, _)
FirstName(frags, t) ==
    IF frags = <<>> THEN <<>>
    ELSE IF CountsAs(Head(frags).index) = t /\ TrimSpace(Head(frags).name) # <<>>
         THEN TrimSpace(Head(frags).name)
         ELSE FirstName(Tail(frags), t)

\* ------------------------------------------------------------------------
\* C6: the content_block_start emitted for a tool index carries the first
\* non-empty id and the first non-empty name seen among the fragments of
\* that index.
\* ------------------------------------------------------------------------
C6_StartCarriesFirstIdAndName ==
    \A k \in 1..Len(ToolStarts) :
        k <= Len(ToolOrder) =>
            LET t == ToolOrder[k]
            IN  /\ FirstID(Fragments, t) # <<>> =>
                      ToolStarts[k].id = FirstID(Fragments, t)
                /\ FirstName(Fragments, t) # <<>> =>
                      ToolStarts[k].name = FirstName(Fragments, t)

\* The argument fragments and the events they should become.
ArgFragments == SelectSeq(Fragments, LAMBDA f : f.args # "")

JsonDeltas == SelectSeq(events, IsInputJsonDelta)

\* The content-block index of the start emitted for tool t.
BlockOfTool(t) == ToolStarts[PositionOf(t, ToolOrder)].index

C7_DeltasAttributed ==
    /\ Len(ToolStarts) = Len(ToolOrder)
    /\ Len(JsonDeltas) = Len(ArgFragments)
    /\ \A k \in 1..Len(ArgFragments) :
         JsonDeltas[k] =
            InputJsonDelta(BlockOfTool(CountsAs(ArgFragments[k].index)),
                           ArgFragments[k].args)

\* ------------------------------------------------------------------------
\* C7: every tool index has one content_block_start, emitted when its first
\* fragment arrives; its content-block index stays the one recorded for it;
\* the input_json_delta events are, in arrival order, the non-empty
\* argument fragments, each with the content-block index of its tool and
\* the argument text unchanged; two tool indices never share a
\* content-block index.  Tool indices are taken as the code resolves them
\* (a negative upstream index counts as 0).
\* ------------------------------------------------------------------------
C7_ToolBlockIndexStable ==
    /\ C7_DeltasAttributed
    /\ DOMAIN toolStates = {ToolOrder[k] : k \in 1..Len(ToolOrder)}
    /\ \A t \in DOMAIN toolStates :
         toolStates[t].contentBlockIndex = BlockOfTool(t)
    /\ \A t, u \in DOMAIN toolStates :
         t # u => BlockOfTool(t) # BlockOfTool(u)

\* Two tool indices with interleaved argument fragments, the later
\* fragments arriving after the other tool's block was opened.
C7_Witness ==
    /\ Cardinality(DOMAIN toolStates) = 2
    /\ Len(JsonDeltas) >= 3
    /\ \E i, j, k \in 1..Len(JsonDeltas) :
         /\ i < j /\ j < k
         /\ JsonDeltas[i].index = JsonDeltas[k].index
         /\ JsonDeltas[i].index # JsonDeltas[j].index

\* C7 as written, with the upstream indices taken as they arrive: fragments
\* with different upstream indices never carry the same content-block index.
C7_UpstreamIndicesNeverShare ==
    /\ C7_DeltasAttributed
    /\ \A i, j \in 1..Len(ArgFragments) :
         ArgFragments[i].index # ArgFragments[j].index =>
            JsonDeltas[i].index # JsonDeltas[j].index

\* The content_block_start events, in emission order.
BlockStarts == SelectSeq(events, IsBlockStart)

\* ------------------------------------------------------------------------
\* C8: the content_block_start events carry, in emission order, the indices
\* 0, 1, 2, ... with no gap and no reuse.
\* ------------------------------------------------------------------------
C8_StartIndicesCountUp ==
    \A k \in 1..Len(BlockStarts) : BlockStarts[k].index = k - 1

\* Three blocks, text and tool_use mixed.
C8_Witness ==
    /\ Len(BlockStarts) >= 3
    /\ \E k \in 1..Len(BlockStarts) : IsTextStart(BlockStarts[k])
    /\ IsToolStart(BlockStarts[1])
    /\ IsToolStart(BlockStarts[Len(BlockStarts)])

\* The scenario of a tool call followed by the first text.
TextStartPos == CHOOSE p \in Positions : IsTextStart(events[p])

ToolStartsBefore(p) == {q \in 1..(p - 1) : IsToolStart(events[q])}

\* One tool block was opened, and then the text block.
ToolThenText ==
    /\ hasTextBlock
    /\ Cardinality(ToolStartsBefore(TextStartPos)) = 1

C9_Sequence ==
    ToolThenText =>
        LET p == TextStartPos
            q == CHOOSE q \in ToolStartsBefore(p) : TRUE
        IN  /\ events[q].index = 0
            /\ \A r \in 1..(q - 1) : ~IsBlockStart(events[r]) /\ ~IsBlockStop(events[r])
                                     /\ ~IsBlockDelta(events[r])
            /\ \A r \in (q + 1)..(p - 2) : ~IsBlockStart(events[r]) /\ ~IsBlockStop(events[r])
            /\ q < p - 1
            /\ events[p - 1] = ContentBlockStop(0)
            /\ events[p] = TextBlockStart(1)
            /\ p < Len(events)
            /\ IsTextDelta(events[p + 1]) /\ events[p + 1].index = 1

IsToolEvent(e) == IsToolStart(e) \/ IsInputJsonDelta(e)
IsTextEvent(e) == IsTextStart(e) \/ IsTextDelta(e)

\* The events of one step: tool-call events come before text events.
C9_ToolEventsFirst ==
    LET new == SubSeq(events', Len(events) + 1, Len(events'))
    IN  \A i, j \in 1..Len(new) :
           (IsTextEvent(new[i]) /\ IsToolEvent(new[j])) => j < i

\* ------------------------------------------------------------------------
\* C9: when the first content of a stream is a tool call and text follows
\* (in a later chunk or in the same chunk), the events are
\* content_block_start(tool_use, 0), then content_block_stop(0), then
\* content_block_start(text, 1), then the text_delta at index 1; and among
\* the events of one chunk no tool-call event follows a text event.
\* ------------------------------------------------------------------------
C9_ToolBlockClosedBeforeText ==
    []C9_Sequence /\ [][C9_ToolEventsFirst]_vars

\* The text arrives in a chunk after the one that opened the tool block.
C9_Witness ==
    /\ ToolThenText
    /\ Len(consumed) = 2
    /\ consumed[1].choices[1].toolCalls # <<>>
    /\ consumed[1].choices[1].content = <<>>
    /\ consumed[2].choices[1].toolCalls = <<>>
    /\ consumed[2].choices[1].content # <<>>

\* A completed stream of non-empty text deltas with no finish reason.
IsTextOnly(chunk) ==
    LET delta == chunk.choices[1]
    IN  /\ delta.toolCalls = <<>>
        /\ delta.content # <<>>
        /\ delta.content[1] # ""
        /\ delta.finish = <<>>

TextOnlyStream ==
    /\ StreamCompleted
    /\ consumed # <<>>
    /\ \A k \in 1..Len(consumed) : IsTextOnly(consumed[k])

\* ------------------------------------------------------------------------
\* C10: a completed stream of non-empty text deltas only, with no finish
\* reason, is message_start, content_block_start(text, 0), one text_delta
\* at index 0 per fragment with the fragment's text in arrival order,
\* content_block_stop(0), message_delta(end_turn), message_stop.
\* ------------------------------------------------------------------------
C10_TextOnlyStream ==
    TextOnlyStream =>
        events = <<MessageStart, TextBlockStart(0)>>
                 \o [k \in 1..Len(consumed) |->
                        TextDelta(0, consumed[k].choices[1].content[1])]
                 \o <<ContentBlockStop(0), MessageDelta("end_turn"), MessageStop>>

\* Two different fragments, and lines that are skipped in between.
C10_Witness ==
    /\ TextOnlyStream
    /\ Len(consumed) >= 2
    /\ consumed[1] # consumed[2]
    /\ nread > Len(consumed)


\* ------------------------------------------------------------------------
\* Finish reasons, the sentinel and skipped lines.
\* ------------------------------------------------------------------------

\* The events of the step.
NewEvents == SubSeq(events', Len(events) + 1, Len(events'))

\* The step consumed a chunk: the last of consumed'.
ChunkStep == Len(consumed') = Len(consumed) + 1

LastDelta == consumed'[Len(consumed')].choices[1]

\* Some chunk consumed so far carried a finish reason.
FinishSeen == \E i \in DOMAIN consumed : consumed[i].choices[1].finish # <<>>

\* The fragments of the step's chunk that carry arguments.
ArgsOfStep ==
    {k \in DOMAIN LastDelta.toolCalls : LastDelta.toolCalls[k].args # ""}

C11_FinishChunkStep ==
    (ChunkStep /\ LastDelta.finish # <<>>) =>
        /\ NewEvents # <<>>
        /\ NewEvents[Len(NewEvents)] =
              MessageDelta(MapFinishReason(LastDelta.finish[1]))
        /\ pc' = "loop"

C11_LaterChunkStep ==
    (ChunkStep /\ FinishSeen) =>
        /\ pc' = "loop"
        /\ (LastDelta.content # <<>> /\ LastDelta.content[1] # "") =>
              \E p \in DOMAIN NewEvents :
                  /\ IsTextDelta(NewEvents[p])
                  /\ NewEvents[p].text = LastDelta.content[1]
        /\ Cardinality({p \in DOMAIN NewEvents : IsInputJsonDelta(NewEvents[p])})
              = Cardinality(ArgsOfStep)
        /\ \A k \in ArgsOfStep :
              \E p \in DOMAIN NewEvents :
                  /\ IsInputJsonDelta(NewEvents[p])
                  /\ NewEvents[p].text = LastDelta.toolCalls[k].args

\* C11: a finish reason in a chunk does not end the stream.  The step that
\* consumes a chunk with a finish reason ends with the message_delta that
\* carries the mapped stop reason and leaves the loop running; every chunk
\* consumed after a finish reason was seen is still translated: its text
\* goes out as a text delta and each of its argument fragments as an
\* input_json_delta.
C11_FinishIsNoTermination ==
    [][C11_FinishChunkStep /\ C11_LaterChunkStep]_vars

\* A chunk with a finish reason was followed by a chunk with text, and the
\* text delta went out after the message_delta.
C11_Witness ==
    /\ Len(consumed) >= 2
    /\ consumed[1].choices[1].finish = <<"stop">>
    /\ consumed[2].choices[1].content = <<"llo">>
    /\ \E p, q \in Positions :
          /\ p < q
          /\ events[p] = MessageDelta("end_turn")
          /\ IsTextDelta(events[q]) /\ events[q].text = "llo"

\* No consumed chunk carried a finish reason.
NoFinishSeen == ~FinishSeen

MessageDeltas == {p \in Positions : IsMessageDelta(events[p])}

\* C12: when the source ended (EOF or [DONE]) and no chunk carried a finish
\* reason, the events hold exactly one message_delta; its stop reason is
\* end_turn, it comes after every content block event and message_stop
\* follows it directly.
C12_DefaultStopReason ==
    (StreamCompleted /\ NoFinishSeen) =>
        /\ Len(events) >= 3
        /\ MessageDeltas = {Len(events) - 1}
        /\ events[Len(events) - 1] = MessageDelta("end_turn")
        /\ IsMessageStop(events[Len(events)])
        /\ \A p \in 2..(Len(events) - 2) :
              IsBlockStart(events[p]) \/ IsBlockDelta(events[p]) \/ IsBlockStop(events[p])

\* A stream without finish reason that ended with a block open: the block's
\* stop is directly before the default message_delta.
C12_Witness ==
    /\ StreamCompleted /\ NoFinishSeen
    /\ consumed # <<>>
    /\ Len(events) >= 4
    /\ IsBlockStop(events[Len(events) - 2])
    /\ events[Len(events) - 1] = MessageDelta("end_turn")

\* The line read last is the sentinel: a data line whose payload is [DONE].
SentinelRead == lastLine.prefix = "data:" /\ lastLine.payload = "[DONE]"

\* The closing sequence for the variables as they are: the stop of the
\* current block if there is one, the default message_delta if no finish
\* reason is recorded, message_stop.
ClosingSequence ==
    (IF currentBlockType # ""
     THEN <<ContentBlockStop(currentContentBlockIndex)>> ELSE <<>>)
    \o (IF finishReason = "" THEN <<MessageDelta("end_turn")>> ELSE <<>>)
    \o <<MessageStop>>

C13_SentinelState ==
    SentinelRead => (sawDone /\ StreamCompleted /\ IsMessageStop(events[Len(events)]))

C13_SentinelStep ==
    (nread' = nread + 1 /\ lastLine'.prefix = "data:" /\ lastLine'.payload = "[DONE]")
        => (NewEvents = ClosingSequence /\ pc' = "returned")

C13_NothingAfterSentinel ==
    SentinelRead =>
        /\ nread' = nread
        /\ lastLine' = lastLine
        /\ events' = events
        /\ UNCHANGED framerVars

\* C13: the sentinel ends consumption.  The step that reads a data line
\* with the payload [DONE] emits the closing sequence (the stop of the
\* current block, the default message_delta if no finish reason was
\* recorded, message_stop) and returns; afterwards no step reads a line,
\* emits an event or changes the framer's variables.
C13_SentinelEndsConsumption ==
    /\ []C13_SentinelState
    /\ [][C13_SentinelStep /\ C13_NothingAfterSentinel]_vars

\* The sentinel came while a tool block was open and no finish reason had
\* been recorded.
C13_Witness ==
    /\ SentinelRead
    /\ finishReason = ""
    /\ \E p \in Positions : IsToolStart(events[p])
    /\ IsBlockStop(events[Len(events) - 2])

\* The kinds of line the loop passes over: a blank line, a comment, a line
\* without the data marker, a data line whose payload decodes to no chunk,
\* a chunk without choices.
IsSkippable(line) ==
    \/ line.prefix = "" /\ line.payload = ""
    \/ line.prefix = ":"
    \/ line.prefix # "data:"
    \/ line.prefix = "data:" /\ line.payload \notin {"json", "[DONE]"}
    \/ line.prefix = "data:" /\ line.payload = "json" /\ line.chunk.choices = <<>>

\* C14: reading a skipped line has no effect.  A step that reads a blank
\* line, a comment, a line without the data marker, a data line with an
\* undecodable payload or a chunk without choices emits no event, leaves
\* the framer's variables as they were and leaves the loop running.
C14_SkippedLineHasNoEffect ==
    [][(nread' = nread + 1 /\ IsSkippable(lastLine')) =>
          /\ events' = events
          /\ consumed' = consumed
          /\ encoderErr' = encoderErr
          /\ UNCHANGED framerVars
          /\ pc' = "loop"]_vars

\* A line without the data marker was read while a block was open, and a
\* chunk was consumed after an earlier skipped line.
C14_Witness ==
    /\ lastLine = BareDone
    /\ pc = "loop"
    /\ currentBlockType = "text"
    /\ nread = Len(consumed) + 2


\* ------------------------------------------------------------------------
\* Admission, upstream failures, release of the upstream body.
\* ------------------------------------------------------------------------

\* A bad request in the words of the contract: the body is no valid JSON,
\* the model is empty after trimming, or the content of some message is
\* neither a string nor a sequence of content blocks.
IsBadRequest(r) ==
    \/ r.body.syntax \in {"garbage", "json+trailing"}
    \/ TrimSpace(r.body.model) = <<>>
    \/ \E i \in DOMAIN r.body.messages :
          r.body.messages[i].content \notin {"string", "blocks"}

\* C15: a bad inbound request (one that passes authentication) is answered
\* 400 by the handler's first step and no upstream call is made for it, now
\* or later.
C15_BadRequestRejected ==
    /\ [][(pc = "inbound" /\ Authorized(inbound) /\ IsBadRequest(inbound)) =>
             (pc' = "returned" /\ respStatus' = 400 /\ upstreamCalls' = 0)]_vars
    /\ [](respStatus = 400 => upstreamCalls = 0)

\* The token after the bearer scheme of the Authorization header, <<>> if
\* the header has another form.
BearerToken(r) ==
    IF /\ Len(r.authorization) >= 2
       /\ r.authorization[1] \in {"Bearer", "bearer"}
       /\ r.authorization[2] = " "
    THEN TrimSpace(SubSeq(r.authorization, 3, Len(r.authorization)))
    ELSE <<>>

\* One of the two credentials of the request is the secret.
CredentialMatches(r) ==
    \/ BearerToken(r) = r.secret
    \/ r.apiKey = r.secret

\* C16: with a secret configured a request whose bearer token or whose
\* x-api-key equals the secret passes authentication whatever the other
\* header holds, and any other request is answered 401 without an upstream
\* call; with no secret configured no request is answered 401.
C16_EitherCredentialAdmits ==
    [][pc = "inbound" =>
          IF inbound.secret = <<>> \/ CredentialMatches(inbound)
          THEN respStatus' # 401
          ELSE pc' = "returned" /\ respStatus' = 401 /\ upstreamCalls' = 0]_vars

\* client.Do was called and returned an error instead of a response.
TransportFailed == pc = "returned" /\ upstreamCalls > 0 /\ ~upOpened

\* C17: when client.Do returns an error, on the streaming and on the
\* non-streaming path, the client gets status 502 with the error body
\* upstream_request_failed and the encoder was never called: no SSE event,
\* not even message_start.
C17_TransportFailureIs502 ==
    TransportFailed =>
        /\ respStatus = 502
        /\ respBody = "upstream_request_failed"
        /\ events = <<>>

\* The call of a streaming request failed.
C17_Witness ==
    /\ TransportFailed
    /\ inbound.body.stream
    /\ respStatus = 502

\* The upstream answered with a status outside 200..299.
Non2xxReceived == pc = "returned" /\ upOpened /\ IsNon2xx(upStatus)

\* Neither converter ran: no translated reply and no SSE event.
NothingTranslated == events = <<>> /\ respBody \notin {"converted", "sse"}

\* C18 as stated: on a non-2xx upstream response the client gets the
\* upstream's status and its raw body unchanged, on both paths, and nothing
\* is translated.
C18_Non2xxPassedThrough ==
    Non2xxReceived =>
        /\ respStatus = upStatus
        /\ respBody = "raw"
        /\ NothingTranslated

\* C18: on a non-2xx upstream response whose body is read to its end the
\* client gets the upstream's status and its raw body unchanged, on both
\* paths.  When reading that body fails the non-streaming path answers 502
\* upstream_request_failed and the streaming path passes the status on
\* with the bytes read so far.  In no case is anything translated.
C18_Non2xxPassedThroughWhenRead ==
    Non2xxReceived =>
        /\ NothingTranslated
        /\ upBodyRead = "all" => (respStatus = upStatus /\ respBody = "raw")
        /\ upBodyRead = "part" =>
              IF inbound.body.stream
              THEN respStatus = upStatus /\ respBody = "raw_truncated"
              ELSE respStatus = 502 /\ respBody = "upstream_request_failed"

\* A non-streaming request got a 500 whose body was read to its end.
C18_Witness ==
    /\ Non2xxReceived
    /\ ~inbound.body.stream
    /\ upStatus = 500
    /\ upBodyRead = "all"
    /\ respStatus = 500

\* C19: in every terminal state of a request for which client.Do returned
\* a response, the body of that response has been closed.
C19_UpstreamBodyClosed ==
    (pc = "returned" /\ upOpened) => upBodyClosed

\* A stream that ended because the context was cancelled.
C19_Witness ==
    /\ pc = "returned"
    /\ ctxCancelled
    /\ ret = "read"
    /\ upOpened
    /\ upBodyClosed

\* C20: when the inbound context is cancelled while the read loop runs, the
\* handler eventually leaves the loop; once the lines the reader had
\* buffered are used up no further line is read, and none after the return.
C20_CancelStopsStream ==
    /\ (ctxCancelled /\ pc = "loop") ~> (pc = "returned")
    /\ [][((ctxCancelled /\ buffered = 0) \/ pc = "returned") => nread' = nread]_vars

\* A stream that had emitted text was cancelled and the handler returned.
C20_Witness ==
    /\ ctxCancelled
    /\ pc = "returned"
    /\ nread >= 1
    /\ nread < MaxLines
    /\ \E p \in Positions : IsTextDelta(events[p])


\* ------------------------------------------------------------------------
\* Deltas and the closing message_delta.
\* ------------------------------------------------------------------------

\* C27: every content_block_delta carries the index of a block that is
\* open when it is emitted: started earlier and not stopped since.  No
\* delta carries index -1 or the index of a closed block.
C27_DeltasNameAnOpenBlock ==
    \A p \in Positions :
        IsBlockDelta(events[p]) => events[p].index \in OpenBlocks(p - 1)

\* The consumed chunks that carried a finish reason.
ChunksWithFinish == {i \in DOMAIN consumed : consumed[i].choices[1].finish # <<>>}

\* C28: a completed stream holds the default message_delta exactly when no
\* message_delta went out while chunks were consumed: one message_delta per
\* chunk with a finish reason (the empty string included), and a single one
\* when there was no such chunk.
C28_DefaultOnlyWithoutFinish ==
    StreamCompleted =>
        Cardinality(MessageDeltas) =
            IF ChunksWithFinish = {} THEN 1 ELSE Cardinality(ChunksWithFinish)

\* C29: in a completed stream no content_block_start, content_block_delta
\* or content_block_stop comes after a message_delta.
C29_NoBlockEventAfterMessageDelta ==
    StreamCompleted =>
        \A p, q \in Positions :
            (p < q /\ IsMessageDelta(events[p])) =>
                ~(IsBlockStart(events[q]) \/ IsBlockDelta(events[q])
                  \/ IsBlockStop(events[q]))


\* ------------------------------------------------------------------------
\* One call, one answer.
\* ------------------------------------------------------------------------

\* The request failed: authentication, bad request, transport failure,
\* non-2xx upstream status, undecodable upstream JSON.
RequestFailed ==
    ret \in {"unauthorized", "bad_request", "transport", "status", "invalid_upstream"}

C21_Answered ==
    /\ upstreamCalls <= 1
    /\ RequestFailed => (pc = "returned" /\ respStatus # 0 /\ respBody # "")

C21_Once ==
    /\ respStatus # 0 => (respStatus' = respStatus /\ respBody' = respBody)
    /\ pc = "returned" => UNCHANGED vars

\* C21: there is no retry.  At most one upstream call is made for a
\* request; when the request fails the handler has returned with a
\* response written; a response once written is never replaced and nothing
\* happens after the return.
C21_NoRetry == []C21_Answered /\ [][C21_Once]_vars

\* The one upstream call returned a body that is no chat completion.
C21_Witness ==
    /\ pc = "returned"
    /\ ret = "invalid_upstream"
    /\ upstreamCalls = 1
    /\ respStatus = 502


\* ------------------------------------------------------------------------
\* Stop reasons and the reply of the non-streaming path.
\* ------------------------------------------------------------------------

\* The fixed table of the stop-reason mapping.
StopReasonTable ==
    [f \in FinishInputs |->
        CASE f = "stop"           -> "end_turn"
          [] f = "length"         -> "max_tokens"
          [] f = "tool_calls"     -> "tool_use"
          [] f = "content_filter" -> "stop_sequence"
          [] OTHER                -> "end_turn"]

HasFinish(chunk) == chunk.choices[1].finish # <<>>

\* The finish reason the reply is made from: the first choice's, the empty
\* string without choices.
FirstFinish == IF upJSON.choices = <<>> THEN "" ELSE upJSON.choices[1].finish

\* The non-streaming request was answered with a converted reply.
Replied == pc = "returned" /\ ret = "ok"

\* C23: the stop reason is the table's value of the finish reason on both
\* paths.  While the loop runs the stop reasons of the message_delta events
\* are the table's values of the finish reasons of the consumed chunks, in
\* order; the stop_reason of a converted reply is the table's value of the
\* first choice's finish reason.
C23_StopReasonTable ==
    /\ pc = "loop" =>
          LET deltas   == SelectSeq(events, IsMessageDelta)
              finishes == SelectSeq(consumed, HasFinish)
          IN  /\ Len(deltas) = Len(finishes)
              /\ \A k \in DOMAIN deltas :
                    deltas[k].stop_reason =
                        StopReasonTable[finishes[k].choices[1].finish[1]]
    /\ Replied => reply.stop_reason = StopReasonTable[FirstFinish]

\* A stream with content_filter and then an unrecognized finish reason.
C23_Witness ==
    /\ pc = "loop"
    /\ Len(consumed) = 2
    /\ consumed[1].choices[1].finish = <<"content_filter">>
    /\ consumed[2].choices[1].finish = <<"eos">>
    /\ events[2] = MessageDelta("stop_sequence")
    /\ events[3] = MessageDelta("end_turn")

\* The body of the end-to-end scenario.
ScenarioResponse ==
    Response(<<RespChoice(<<"hello">>, <<>>, "stop")>>, <<Usage(5, 2, <<>>)>>)

C24_Reply ==
    Replied =>
        /\ outMaxTokens # 0
        /\ reply.stop_reason = StopReasonTable[FirstFinish]
        /\ (upJSON.choices # <<>>
            /\ upJSON.choices[1].content # <<>>
            /\ upJSON.choices[1].content[1] # "") =>
              (/\ reply.content # <<>>
               /\ reply.content[1] = TextBlock(upJSON.choices[1].content[1]))
        /\ upJSON.usage # <<>> =>
              LET u      == upJSON.usage[1]
                  cached == IF u.cached = <<>> THEN 0 ELSE u.cached[1]
              IN  reply.usage = ReplyUsage(u.prompt - cached, u.completion, cached)
        /\ upJSON = ScenarioResponse =>
              reply = Reply(<<TextBlock("hello")>>, "end_turn", ReplyUsage(5, 2, 0))

C24_DefaultMaxTokens ==
    /\ (pc = "inbound" /\ pc' = "call" /\ inbound.body.maxTokens \in {<<>>, <<0>>})
          => outMaxTokens' = 1024
    /\ outMaxTokens # 0 => outMaxTokens' = outMaxTokens

\* C24: a non-streaming request whose max_tokens is zero or absent goes out
\* with max_tokens 1024, and a 2xx upstream body is answered with its
\* conversion: a text block for the first choice's non-empty text, the
\* table's stop reason, and usage with input_tokens = prompt_tokens minus
\* cached tokens, output_tokens = completion_tokens and
\* cache_read_input_tokens = cached tokens (0 if absent).  The scenario
\* body (hello, stop, 5, 2) gives the text block hello, end_turn and usage
\* 5, 2, 0.
C24_NonStreamingReply == []C24_Reply /\ [][C24_DefaultMaxTokens]_vars

\* The scenario: the outbound request carried 1024 and the scenario body
\* came back.
C24_Witness ==
    /\ Replied
    /\ outMaxTokens = 1024
    /\ upJSON = ScenarioResponse
    /\ reply.usage = ReplyUsage(5, 2, 0)

\* The arguments of a tool call are a JSON object, given as such or as the
\* text of one.
ArgumentsAreObject(a) ==
    \/ a.kind = "object"
    \/ a.kind = "string" /\ a.raw \in {"{\"a\":1}", "{}"}

IsToolUse(b) == b.type = "tool_use"

\* C26: in a converted reply the input of a tool_use block whose tool call
\* had arguments that are no JSON object (text that does not parse to one,
\* or a value of another shape) is the fallback object holding the raw
\* value as text, never an empty object or null.
C26_FallbackInput ==
    (Replied /\ upJSON.choices # <<>>) =>
        LET calls  == upJSON.choices[1].toolCalls
            blocks == SelectSeq(reply.content, IsToolUse)
        IN  /\ Len(blocks) = Len(calls)
            /\ \A k \in DOMAIN calls :
                  ~ArgumentsAreObject(calls[k].arguments) =>
                      /\ blocks[k].input.kind = "fallback"
                      /\ calls[k].arguments.kind = "string" =>
                            blocks[k].input.value = calls[k].arguments.raw

\* ------------------------------------------------------------------------
\* The request converter on content blocks (package converter).  A Go
\* string built by joining is the sequence of the joined strings, the
\* empty string the empty sequence.
\* ------------------------------------------------------------------------

\* A Go string as the sequence of its pieces.
Str(s) == IF s = "" THEN <<>> ELSE <<s>>

\* The "content" of an outbound message: a string, nil or a list of parts.
Content(kind, text, parts) == [kind |-> kind, text |-> text, parts |-> parts]

\* One map[string]any appended to `messages`.
OutMessage(role, toolCallID, content, toolCalls) ==
    [role |-> role, toolCallID |-> toolCallID, content |-> content,
     toolCalls |-> toolCalls]

RECURSIVE Concat(_)
\* append(out, msgs...) over a sequence of sequences.
Concat(seqs) ==
    IF seqs = <<>> THEN <<>> ELSE Head(seqs) \o Concat(Tail(seqs))

\* part_000:112-123: the non-empty texts of the text blocks, joined.
IsTextBlock(blk) == blk.type = "text" /\ blk.text # ""

joinTextBlocks(blocks) ==
    LET texts == SelectSeq(blocks, IsTextBlock)
    IN [i \in 1..Len(texts) |-> texts[i].text]

\* part_000:128: a block that gets a tool message.
IsAnsweredToolResult(blk) ==
    blk.type = "tool_result" /\ TrimSpace(blk.toolUseID) # <<>>


\* part_000:131-144: the tool message of one tool_result block; the id goes
\* out untrimmed, a JSON string decoded, any other JSON as its text.
ToolMessage(blk) ==
    OutMessage(<<"tool">>, blk.toolUseID,
               Content("string",
                       IF blk.content.kind = "absent" THEN <<>>
                       ELSE Str(blk.content.raw), <<>>),
               <<>>)

\* base64.StdEncoding.DecodeString succeeds on these of the strings drawn.
IsBase64(data) == data \in {"", "QUJD"}

\* part_000:149-180: the parts one block contributes, none or one.
PartsOf(blk) ==
    IF blk.type = "text"
    THEN IF blk.text # ""
         THEN <<[type |-> "text", text |-> blk.text, url |-> <<>>]>>
         ELSE <<>>
    ELSE IF blk.type = "image" /\ blk.source # <<>>
    THEN LET src == blk.source[1]
             url == IF src.type = "base64"
                    THEN IF src.mediaType = "" \/ src.data = ""
                            \/ ~IsBase64(src.data)
                         THEN <<>>
                         ELSE <<"data:", src.mediaType, ";base64,", src.data>>
                    ELSE IF src.type = "url" THEN Str(src.url)
                    ELSE <<>>
         IN IF url # <<>>
            THEN <<[type |-> "image_url", text |-> "", url |-> url]>>
            ELSE <<>>
    ELSE <<>>

\* part_000:182-202: the one user message built from the parts.
UserMessage(blocks) ==
    LET parts == Concat([i \in 1..Len(blocks) |-> PartsOf(blocks[i])])
    IN OutMessage(<<"user">>, <<>>,
                  IF parts = <<>> THEN Content("string", <<>>, <<>>)
                  ELSE IF Len(parts) = 1 /\ parts[1].type = "text"
                  THEN Content("string", <<parts[1].text>>, <<>>)
                  ELSE Content("parts", <<>>, parts),
                  <<>>)

\* The tool messages of the blocks that pass `answered`, in block order.
ToolMessages(answered) == [i \in 1..Len(answered) |-> ToolMessage(answered[i])]

\* As below, with the user message ahead of the tool messages.
convertAnthropicUserBlocksUserFirst(blocks) ==
    <<UserMessage(blocks)>>
    \o ToolMessages(SelectSeq(blocks, IsAnsweredToolResult))

\* part_000:125-203.
convertAnthropicUserBlocksToOpenAIMessages(blocks) ==
    ToolMessages(SelectSeq(blocks, IsAnsweredToolResult))
    \o <<UserMessage(blocks)>>

\* part_000:209-211: a tool_use block that becomes a tool call.
IsToolCallBlock(blk) ==
    /\ blk.type = "tool_use"
    /\ TrimSpace(blk.id) # <<>>
    /\ TrimSpace(blk.name) # <<>>

\* part_000:205-239.
convertAnthropicAssistantBlocksToOpenAIMessage(blocks) ==
    LET text == joinTextBlocks(blocks)
        uses == SelectSeq(blocks, IsToolCallBlock)
    IN OutMessage(<<"assistant">>, <<>>,
                  IF text # <<>> THEN Content("string", text, <<>>)
                  ELSE Content("nil", <<>>, <<>>),
                  [i \in 1..Len(uses) |->
                      [id |-> uses[i].id, name |-> uses[i].name,
                       arguments |-> IF uses[i].input.kind = "absent"
                                     THEN "{}" ELSE uses[i].input.raw]])

\* part_000:22-62: what one inbound message appends, its content parsing.
\* The role is compared trimmed and as written (no case folding).
ConvertMessage(m) ==
    LET role == TrimSpace(m.role)
    IN IF role = <<>> THEN <<>>
       ELSE IF m.content = "string"
       THEN <<OutMessage(role, <<>>, Content("string", <<"str">>, <<>>), <<>>)>>
       ELSE IF m.content = "null"
       THEN <<OutMessage(role, <<>>, Content("string", <<>>, <<>>), <<>>)>>
       ELSE IF role = <<"user">>
       THEN convertAnthropicUserBlocksToOpenAIMessages(m.blocks)
       ELSE IF role = <<"assistant">>
       THEN <<convertAnthropicAssistantBlocksToOpenAIMessage(m.blocks)>>
       ELSE <<OutMessage(role, <<>>,
                         Content("string", joinTextBlocks(m.blocks), <<>>),
                         <<>>)>>

\* part_000:12-90, the messages of the result: req is [system, messages],
\* system the text extractSystemText returns.
ConvertAnthropicToOpenAI(req) ==
    LET sys == TrimSpace(req.system)
        err == ConvertFails(req.messages)
    IN [done |-> TRUE,
        err |-> err,
        messages |->
            IF err THEN <<>>
            ELSE (IF sys # <<>>
                  THEN <<OutMessage(<<"system">>, <<>>,
                                    Content("string", sys, <<>>), <<>>)>>
                  ELSE <<>>)
                 \o Concat([i \in 1..Len(req.messages) |->
                               ConvertMessage(req.messages[i])])]

\* ------------------------------------------------------------------------
\* The converter taken alone: a request drawn from the inputs below is
\* converted once.
\* ------------------------------------------------------------------------

MaxBlocks == 3

BlockInputs ==
    {TextIn("hi"), TextIn(""),
     ToolResultIn(<<"t1">>, RawJSON("string", "ok")),
     ToolResultIn(<<"t2">>, RawJSON("other", "[1]")),
     ToolResultIn(<<" ">>, RawJSON("string", "lost")),
     ToolUseIn(<<"u1">>, <<"f">>, RawJSON("absent", "")),
     ImageIn(<<>>),
     ImageIn(<<ImageSource("base64", "image/png", "QUJD", "")>>),
     ImageIn(<<ImageSource("base64", "image/png", "Q", "")>>),
     ImageIn(<<ImageSource("url", "", "", "http://u")>>)}

BlockLists(n) == UNION {[1..k -> BlockInputs] : k \in 0..n}

\* The messages around a user message of blocks.
NeighbourInputs ==
    {Message(<<"user">>, "string"),
     Message(<<" ">>, "string"),
     Message(<<"user">>, "number"),
     BlocksMessage(<<"User">>, <<TextIn("hi"), TextIn("yo")>>),
     BlocksMessage(<<"assistant">>,
                   <<TextIn("hi"), ToolUseIn(<<"u1">>, <<"f">>, RawJSON("absent", "")),
                     ToolUseIn(<<>>, <<"f">>, RawJSON("other", "{}"))>>)}

ConvertInputs ==
    {[system |-> <<>>, messages |-> <<BlocksMessage(<<"user">>, bl)>>] :
        bl \in BlockLists(MaxBlocks)}
    \cup {[system |-> sys,
           messages |-> <<m1, BlocksMessage(<<" ", "user">>, bl), m2>>] :
            sys \in {<<>>, <<" ">>, <<"be brief">>},
            m1 \in NeighbourInputs, m2 \in NeighbourInputs,
            bl \in BlockLists(1)}

InitConvert ==
    /\ InitWith({Admitted(FALSE)})
    /\ convReq \in ConvertInputs
    /\ convOut = NotConverted
    /\ other = NoWorker

Convert ==
    /\ ~convOut.done
    /\ convOut' = ConvertAnthropicToOpenAI(convReq)
    /\ UNCHANGED <<pc, ret, inbound, upstreamCalls, upOpened, upStatus,
                   upBodyRead, respStatus, respBody, upBodyClosed, outMaxTokens,
                   upJSON, reply, convReq, other, ctxCancelled, streamVars,
                   events, encoderErr, framerVars>>

NextConvert == Convert

SpecConvert == InitConvert /\ [][NextConvert]_vars


\* ------------------------------------------------------------------------
\* User messages given as content blocks.
\* ------------------------------------------------------------------------

\* A string that is not blank.
NotBlank(s) == \E i \in 1..Len(s) : ~IsSpace(s[i])

IsUserBlocks(m) ==
    /\ m.content = "blocks"
    /\ NotBlank(m.role)
    /\ \A i \in 1..Len(m.role) : IsSpace(m.role[i]) \/ m.role[i] = "user"

IsToolResult(blk) == blk.type = "tool_result"

HasToolUseID(blk) == IsToolResult(blk) /\ NotBlank(blk.toolUseID)

\* The number of outbound messages one inbound message accounts for.
SegmentLen(m) ==
    IF ~NotBlank(m.role) THEN 0
    ELSE IF IsUserBlocks(m) THEN Len(SelectSeq(m.blocks, HasToolUseID)) + 1
    ELSE 1

RECURSIVE SegmentsBefore(_, _)
SegmentsBefore(msgs, i) ==
    IF i <= 1 THEN 0
    ELSE SegmentsBefore(msgs, i - 1) + SegmentLen(msgs[i - 1])

\* Where the outbound messages of inbound message i begin, less one.
OffsetOf(i) ==
    (IF NotBlank(convReq.system) THEN 1 ELSE 0)
    + SegmentsBefore(convReq.messages, i)

IsToolRole(m) == m.role = <<"tool">>

IsMediaBlock(blk) == blk.type \in {"text", "image"}

Converted == convOut.done /\ ~convOut.err

\* C25 (as amended): the outbound messages are the inbound messages' in
\* their order, a blank role giving none; a user message of content blocks
\* gives one tool-role message for each tool_result block whose
\* tool_use_id is not blank, in block order and carrying that id, all of
\* them before exactly one user-role message, which is built from the text
\* and image blocks only.
C25_ToolMessagesThenUserMessage ==
    Converted =>
        LET out == convOut.messages
            msgs == convReq.messages
        IN /\ Len(out) = OffsetOf(Len(msgs) + 1)
           /\ \A i \in 1..Len(msgs) :
                LET m == msgs[i]
                    off == OffsetOf(i)
                    results == SelectSeq(m.blocks, HasToolUseID)
                    user == out[off + Len(results) + 1]
                IN IF IsUserBlocks(m)
                   THEN /\ \A k \in 1..Len(results) :
                             /\ out[off + k].role = <<"tool">>
                             /\ out[off + k].toolCallID = results[k].toolUseID
                             /\ out[off + k].content.text
                                    = <<results[k].content.raw>>
                        /\ user.role = <<"user">>
                        /\ user.toolCallID = <<>>
                        /\ Len(user.content.parts) + Len(user.content.text)
                               <= Len(SelectSeq(m.blocks, IsMediaBlock))
                        /\ \A p \in 1..Len(user.content.parts) :
                             user.content.parts[p].type \in {"text", "image_url"}
                   ELSE SegmentLen(m) = 1 => NotBlank(out[off + 1].role)
                                             /\ ~IsToolRole(out[off + 1])

\* A user message of two tool results with an id and one text or image
\* block has been converted: two tool messages have gone out.
C25_Witness ==
    /\ Converted
    /\ \E i \in 1..Len(convReq.messages) :
          LET m == convReq.messages[i]
          IN /\ IsUserBlocks(m)
             /\ Len(SelectSeq(m.blocks, HasToolUseID)) = 2
             /\ Len(SelectSeq(m.blocks, IsMediaBlock)) = 1
    /\ Len(SelectSeq(convOut.messages, IsToolRole)) = 2

\* C25 as stated: one tool-role message for every tool_result block.
C25_OneToolMessagePerToolResult ==
    Converted =>
        Len(SelectSeq(convOut.messages, IsToolRole))
            = Len(SelectSeq(Concat([i \in 1..Len(convReq.messages) |->
                                       IF IsUserBlocks(convReq.messages[i])
                                       THEN convReq.messages[i].blocks
                                       ELSE <<>>]),
                            IsToolResult))

\* ------------------------------------------------------------------------
\* Two streaming requests at once.  net/http runs the handler registered in
\* main.go:19-22 on one goroutine per request; the second request's
\* goroutine is followed from the point its stream begins.  Its framer
\* variables are the locals proxyStream declares (server.go:218-253); the
\* package has no variable that a request writes.
\* ------------------------------------------------------------------------

TwoLines ==
    {DataLine(Chunk(<<>>, <<"He">>, <<>>)),
     DataLine(Chunk(<<FragBare(1)>>, <<>>, <<>>)),
     DataLine(Chunk(<<FragFull(0)>>, <<>>, <<"tool_calls">>))}

InitTwo ==
    /\ InitWith({r \in CancelRequests :
                    Authorized(r) /\ BadRequestCode(r.body) = "" /\ r.body.stream})
    /\ InitAlone

\* The second worker's framer, were nextContentBlockIndex one variable of
\* the package.
OtherFramerShared ==
    [other.s EXCEPT !.nextContentBlockIndex = nextContentBlockIndex]

\* The second worker's framer: its own locals.
OtherFramer == other.s

\* A step of the second worker: nothing of the first request changes.
OtherStep(next) ==
    /\ other' = next
    /\ UNCHANGED <<pc, ret, inbound, upstreamCalls, upOpened, upStatus,
                   upBodyRead, respStatus, respBody, upBodyClosed, outMaxTokens,
                   upJSON, reply, convReq, convOut, ctxCancelled, streamVars,
                   events, encoderErr, framerVars>>

\* server.go:176-253 for the second request.
OtherBegin ==
    /\ other.pc = "idle"
    /\ OtherStep(Worker("loop", <<>>, <<MessageStart>>, FreshFramer))

\* server.go:255-397 for the second request, on a line holding a chunk.
OtherReadChunk ==
    /\ other.pc = "loop"
    /\ Len(other.consumed) < MaxLines
    /\ \E line \in TwoLines :
         /\ LineClass(line) = "chunk"
         /\ LET s == HandleChunk(OtherFramer, line.chunk)
            IN OtherStep(Worker("loop", Append(other.consumed, line.chunk),
                                other.events \o s.out,
                                [s EXCEPT !.out = <<>>]))

\* server.go:399-424 for the second request.
OtherReadEOF ==
    /\ other.pc = "loop"
    /\ LET s == CloseStream(OtherFramer)
       IN OtherStep(Worker("returned", other.consumed, other.events \o s.out,
                           [s EXCEPT !.out = <<>>]))

NextTwo ==
    \/ Admit
    \/ StreamBegin
    \/ ReadChunkFrom(TwoLines)
    \/ ReadEOF
    \/ OtherBegin
    \/ OtherReadChunk
    \/ OtherReadEOF

SpecTwo == InitTwo /\ [][NextTwo]_vars

RECURSIVE AloneFramer(_)
\* The framer of a request handled alone after the given chunks, with all
\* the events emitted for them.
AloneFramer(chunks) ==
    IF chunks = <<>> THEN FreshFramer
    ELSE HandleChunk(AloneFramer(SubSeq(chunks, 1, Len(chunks) - 1)),
                     chunks[Len(chunks)])

\* The events of a request handled alone on the given chunks, the upstream
\* having ended or not.
AloneEvents(chunks, ended) ==
    <<MessageStart>>
    \o (IF ended THEN CloseStream(AloneFramer(chunks))
        ELSE AloneFramer(chunks)).out

\* C22: with two streaming requests in progress, whatever the order of the
\* two workers' steps, the events written for each request are those of
\* that request handled alone on the lines it has read.
C22_EventsAsWhenAlone ==
    /\ pc \in {"loop", "returned"}
          => events = AloneEvents(consumed, pc = "returned")
    /\ other.pc \in {"loop", "returned"}
          => other.events = AloneEvents(other.consumed, other.pc = "returned")

\* Both requests have run to their end on different lines.
C22_Witness ==
    /\ pc = "returned"
    /\ other.pc = "returned"
    /\ Len(consumed) >= 2
    /\ Len(other.consumed) >= 2
    /\ consumed # other.consumed
    /\ events # other.events
====
